---- MODULE Spec2Model ----
(***************************************************************************)
(* The timed-segment subtitle pipeline of Perfecto-AI:                     *)
(*   runner.run_job -> generate_timed_segments.generate_subtitle_from_     *)
(*   script -> ssml_converter (clause breaker, markup converter) ->        *)
(*   polly_tts (synthesis, silence fallback, mix) -> timing -> ASS file.   *)
(*                                                                         *)
(* Strings are sequences of one-character strings.  Times are integers in  *)
(* ticks of 1/7 ms, so that len(text)/7.0 seconds is the exact integer     *)
(* len*1000 ticks and round(x, 3) is rounding to the nearest multiple of   *)
(* TicksPerMs (7 is odd, so no tie ever occurs).                           *)
(***************************************************************************)
EXTENDS Integers, Sequences, FiniteSets, TLC

VARIABLES
    pc,              \* position of the run
    entry,           \* "run_job" or "generate_subtitle_from_script"
    script_text,     \* the script (job["script_text"] / script_text argument)
    persona_prompt,  \* job["persona_prompt"]
    sentence_units,  \* run_job: 1st-level sentence split
    pre_split_lines, \* argument of generate_subtitle_from_script (<<>> is None/[])
    clause_lines,    \* clause units
    ssml_lines,      \* markup per unit
    chunk_paths,     \* paths returned by synthesize_lines_polly (built up)
    synth_ok,        \* per attempted line: did polly.synthesize_speech succeed
    files,           \* filesystem: path -> content
    dirs,            \* filesystem: directories created
    segments,        \* timed segments built so far
    cur,             \* running clock (ticks)
    calls,           \* log of collaborator calls, in order
    result,          \* what generate_subtitle_from_script returned / raised
    job_result,      \* how run_job went on after the call
    fn,              \* the function under study ("pipeline" for a pipeline run)
    input,           \* its arguments
    output,          \* <<>> before the call, <<value>> after it
    SUBTITLE_TEMPLATES, \* the template registry, a module-level dict
    runs             \* the locals of each of several concurrent calls of
                     \* generate_subtitle_from_script (<<>> when there is one)

vars == << pc, entry, script_text, persona_prompt, sentence_units, pre_split_lines,
           clause_lines, ssml_lines, chunk_paths, synth_ok, files, dirs, segments,
           cur, calls, result, job_result, fn, input, output, SUBTITLE_TEMPLATES,
           runs >>

\* the state of a pipeline run
pvars == << pc, entry, script_text, persona_prompt, sentence_units, pre_split_lines,
            clause_lines, ssml_lines, chunk_paths, synth_ok, files, dirs, segments,
            cur, calls, result, job_result >>

\* the state of a single function call
fvars == << fn, input, output, SUBTITLE_TEMPLATES, runs >>

----------------------------------------------------------------------------
(* Bounds *)

MaxUnits == 2

\* a collaborator may answer with one entry more than it was asked for
MaxResp == MaxUnits + 1

\* longest text handed to sanitize_ass_text on its own
MaxSanLen == 4

\* longest text handed to prepare_text_for_ass on its own, and the largest
\* one_line_threshold
MaxWrapLen == 6

MaxThr == 3

\* the pitches handed to _pitch_to_hex on its own, in hundredths of a
\* semitone, either side of zero
MaxPitchCs == 1000

\* the times handed to _fmt_time on its own: every millisecond up to this
\* one, and the milliseconds around each full minute and hour
MaxFmtMs == 1200

\* most segments handed to generate_ass_subtitle on its own
MaxCues == 2
MaxScriptLen == 5

\* longest list handed to dedupe_adjacent_texts on its own
MaxDedupeLen == 4

\* most keywords and most segments handed to the keyword distribution
MaxKeywords == 3
MaxSegments == 5

\* most lines of one of two concurrent runs
MaxConcUnits == 2

----------------------------------------------------------------------------
(* Time: ticks of 1/7 ms *)

\* len(text) / 7.0: the reading speed, characters per second
CharsPerSec == 7

TicksPerMs == CharsPerSec

\* round(x, 3) of a non-negative time, as a number of milliseconds
Round3(t) == (2 * t + TicksPerMs) \div (2 * TicksPerMs)

\* _write_silence_mp3(out_path, 0.6): the silence written when synthesis fails
SilenceMs == 600

\* the clamp of the estimate: max(0.6, min(8.0, ...))
MinEstMs == 600

MaxEstMs == 8000

\* faulty variant: the estimate without its clamp
EstimateNoClamp(text) == Len(text) * 1000

\* max(0.6, min(8.0, len(text) / 7.0)), in ticks
EstimateTicks(text) ==
    LET q  == Len(text) * 1000
        lo == MinEstMs * TicksPerMs
        hi == MaxEstMs * TicksPerMs
        m  == IF q < hi THEN q ELSE hi
    IN  IF m > lo THEN m ELSE lo

----------------------------------------------------------------------------
(* Strings *)

\* characters are atoms; those outside ASCII are named by their code point
NBSP == "U+00A0"

\* str.isspace() / \s
WS == {" ", "\n", "\t", "\r", NBSP}

Rep(c, n) == [k \in 1..n |-> c]

SetMin(S) == CHOOSE x \in S : \A y \in S : x <= y

SetMax(S) == CHOOSE x \in S : \A y \in S : x >= y

\* str.strip()
Strip(s) ==
    IF \A k \in 1..Len(s) : s[k] \in WS THEN <<>>
    ELSE LET n == Len(s)
             \* the first character kept, and the last one counted from the end
             i == CHOOSE k \in 1..n : s[k] \notin WS /\ \A j \in 1..(k - 1) : s[j] \in WS
             r == CHOOSE k \in 1..n :
                      s[n + 1 - k] \notin WS /\ \A j \in 1..(k - 1) : s[n + 1 - j] \in WS
         IN  SubSeq(s, i, n + 1 - r)

\* str.splitlines(), for "\n" line ends
RECURSIVE SplitLines(_)
SplitLines(s) ==
    LET nl == {k \in 1..Len(s) : s[k] = "\n"}
    IN  IF s = <<>> THEN <<>>
        ELSE IF nl = {} THEN <<s>>
        ELSE <<SubSeq(s, 1, SetMin(nl) - 1)>> \o SplitLines(SubSeq(s, SetMin(nl) + 1, Len(s)))

\* [f(x) for x in xs if p(x)] building blocks
RECURSIVE StripNonBlank(_)
StripNonBlank(xs) ==
    IF xs = <<>> THEN <<>>
    ELSE IF Strip(Head(xs)) # <<>>
         THEN <<Strip(Head(xs))>> \o StripNonBlank(Tail(xs))
         ELSE StripNonBlank(Tail(xs))

LowerChar(c) ==
    CASE c = "S" -> "s" [] c = "P" -> "p" [] c = "E" -> "e"
      [] c = "A" -> "a" [] c = "K" -> "k" [] c = "I" -> "i"
      [] c = "T" -> "t" [] c = "C" -> "c" [] c = "H" -> "h" [] OTHER -> c

Lower(s) == [k \in 1..Len(s) |-> LowerChar(s[k])]

\* sub in s
Contains(s, sub) ==
    \E k \in 0..(Len(s) - Len(sub)) : SubSeq(s, k + 1, k + Len(sub)) = sub

SpeakTag == <<"<", "s", "p", "e", "a", "k">>

SpeakOpen == <<"<", "s", "p", "e", "a", "k", ">">>

SpeakClose == <<"<", "/", "s", "p", "e", "a", "k", ">">>

\* "<speak></speak>", the neutral padding entry
EmptySpeak == SpeakOpen \o SpeakClose

----------------------------------------------------------------------------
(* runner.py: the sentence-level split *)

Terminal == {".", "!", "?"}

\* the first index >= k of s that holds no whitespace (Len(s) + 1 if none)
SkipWS(s, k) == SetMin({j \in k..Len(s) : s[j] \notin WS} \cup {Len(s) + 1})

\* faulty variant: cuts at every whitespace run
RECURSIVE SplitAtAnyWhitespace(_)
SplitAtAnyWhitespace(s) ==
    LET cuts == {k \in 2..Len(s) : s[k] \in WS}
    IN  IF cuts = {} THEN <<s>>
        ELSE <<SubSeq(s, 1, SetMin(cuts) - 1)>>
             \o SplitAtAnyWhitespace(SubSeq(s, SkipWS(s, SetMin(cuts)), Len(s)))

\* re.split(r"(?<=[.!?])\s+", s): cut at each whitespace run that directly
\* follows a terminal mark
RECURSIVE ReSplit(_)
ReSplit(s) ==
    LET cuts == {k \in 2..Len(s) : s[k] \in WS /\ s[k - 1] \in Terminal}
    IN  IF cuts = {} THEN <<s>>
        ELSE <<SubSeq(s, 1, SetMin(cuts) - 1)>>
             \o ReSplit(SubSeq(s, SkipWS(s, SetMin(cuts)), Len(s)))

_split_to_sentences(text) ==
    LET t == Strip(text)
    IN  IF t = <<>> THEN <<>> ELSE StripNonBlank(ReSplit(t))

----------------------------------------------------------------------------
(* runner.py: keywords of sentences given to segments; a keyword is one
   whole string *)

\* faulty variant: the first keyword takes the whole remainder
PerSentenceCountsFrontLoaded(n_segments, s_cnt) ==
    [i \in 1..s_cnt |->
        (n_segments \div s_cnt) + (IF i = 1 THEN n_segments % s_cnt ELSE 0)]

\* [base + (1 if i < rem else 0) for i in range(s_cnt)]
per_sentence_counts(n_segments, s_cnt) ==
    [i \in 1..s_cnt |->
        (n_segments \div s_cnt) + (IF i - 1 < n_segments % s_cnt THEN 1 ELSE 0)]

\* the loop of lines 50-52: counts[i] copies of keyword i, in keyword order
RECURSIVE Expand(_, _)
Expand(keywords, counts) ==
    IF keywords = <<>> THEN <<>>
    ELSE Rep(Head(keywords), Head(counts)) \o Expand(Tail(keywords), Tail(counts))

_distribute_sentence_keywords_to_segments(keywords, n_segments) ==
    IF n_segments <= 0 THEN <<>>
    ELSE IF keywords = <<>> THEN Rep("abstract background", n_segments)
    ELSE LET s_cnt == IF Len(keywords) > 1 THEN Len(keywords) ELSE 1
             expanded == Expand(keywords, per_sentence_counts(n_segments, s_cnt))
         IN  IF Len(expanded) < n_segments
             THEN expanded \o Rep(keywords[Len(keywords)], n_segments - Len(expanded))
             ELSE IF Len(expanded) > n_segments
             THEN SubSeq(expanded, 1, n_segments)
             ELSE expanded

----------------------------------------------------------------------------
(* ssml_converter.py: what the LLM answers, and what is made of it *)

\* A response of _complete_with_any_llm, as json.loads sees it:
\*   "raise"       the call raised
\*   "json_array"  a JSON value that iterates (an array; an object or a string
\*                 iterate as strings): arr holds [str |-> is it a str, val]
\*   "json_scalar" a JSON number/true/null: iterating it raises TypeError,
\*                 which the except branch catches; raw is the text
\*   "not_json"    json.loads raises; raw is the text
LLMResp(kind, arr, raw) == [kind |-> kind, arr |-> arr, raw |-> raw]

NonStr == [str |-> FALSE, val |-> <<>>]

Str(s) == [str |-> TRUE, val |-> s]

\* [ (x or "").strip() for x in arr if isinstance(x, str) and x.strip() ]
RECURSIVE StrItemsStripped(_)
StrItemsStripped(arr) ==
    IF arr = <<>> THEN <<>>
    ELSE IF Head(arr).str /\ Strip(Head(arr).val) # <<>>
         THEN <<Strip(Head(arr).val)>> \o StrItemsStripped(Tail(arr))
         ELSE StrItemsStripped(Tail(arr))

\* breath_linebreaks_batch, given the response the LLM gave (not "raise")
breath_linebreaks_batch(resp) ==
    IF resp.kind = "json_array"
    THEN StrItemsStripped(resp.arr)
    ELSE StripNonBlank(SplitLines(resp.raw))

\* s = (it or "").strip() if isinstance(it, str) else "";
\* wrapped in <speak> when non-empty and without a <speak tag
SsmlOfItem(it) ==
    LET s == IF it.str THEN Strip(it.val) ELSE <<>>
    IN  IF s # <<>> /\ ~Contains(Lower(s), SpeakTag)
        THEN SpeakOpen \o s \o SpeakClose
        ELSE s

\* faulty variant: the length mismatch is not reconciled
PadTruncateNone(out, n) == out

\* (out + ["<speak></speak>"] * n)[:n]
PadTruncate(out, n) ==
    SubSeq(out \o [k \in 1..n |-> EmptySpeak], 1, n)

\* convert_lines_to_ssml_batch, given the response the LLM gave (not "raise")
convert_lines_to_ssml_batch(lines, resp) ==
    IF lines = <<>> THEN <<>>
    ELSE IF resp.kind = "json_array"
    THEN LET out == [k \in 1..Len(resp.arr) |-> SsmlOfItem(resp.arr[k])]
         IN  IF Len(out) # Len(lines) THEN PadTruncate(out, Len(lines)) ELSE out
    ELSE LET arr == StripNonBlank(SplitLines(resp.raw))
         IN  IF Len(arr) # Len(lines) THEN PadTruncate(arr, Len(lines)) ELSE arr

----------------------------------------------------------------------------
(* Inputs and collaborator answers the model draws from *)

SeqsUpTo(S, n) == UNION {[1..k -> S] : k \in 0..n}

T42 == Rep("k", 42)

T60 == Rep("k", 60)

Blank == <<" ">>

PaddedT42 == <<" ">> \o T42 \o <<"\n">>

Scripts == { <<>>, <<" ">>, <<"a">>, <<" ", "a", ".", " ", " ", "b", "!">> }

PreSplitInputs == SeqsUpTo({Blank, PaddedT42, T60}, MaxUnits)

BreathResps ==
    {LLMResp("json_array", a, <<>>) :
        a \in SeqsUpTo({NonStr, Str(Blank), Str(PaddedT42), Str(T60)}, MaxUnits)}
    \cup {LLMResp("json_scalar", <<>>, <<"4", "2">>)}
    \cup {LLMResp("not_json", <<>>, r) :
            r \in {<<>>, <<" ", "\n">>, T60 \o <<"\n", "\n">> \o PaddedT42}}

MarkupX == <<"x">>

MarkupY == <<"<", "S", "P", "E", "A", "K", ">", "y", "<", "/", "S", "P", "E", "A", "K", ">">>

\* too few, as many, too many entries; non-string entries; a scalar; text
SsmlResps ==
    {LLMResp("json_array", a, <<>>) :
        a \in SeqsUpTo({NonStr, Str(<<" ">> \o MarkupY)}, MaxResp) \cup {<<Str(MarkupX)>>}}
    \cup {LLMResp("json_scalar", <<>>, <<"7">>)}
    \cup {LLMResp("not_json", <<>>, r) :
            r \in {<<>>, MarkupY \o <<"\n", " ", "\n">> \o MarkupY}}

\* durations of the audio Polly returns, in ticks
PollyTicks == {9805}

----------------------------------------------------------------------------
(* generate_timed_segments.py: subtitle text *)

\* faulty variant: prev is the entry kept last
RECURSIVE DedupeAgainstLastKept(_, _)
DedupeAgainstLastKept(lines, prev) ==
    IF lines = <<>> THEN <<>>
    ELSE LET s == Head(lines)
         IN  IF s # <<>> /\ prev # <<s>>
             THEN <<s>> \o DedupeAgainstLastKept(Tail(lines), <<s>>)
             ELSE DedupeAgainstLastKept(Tail(lines), prev)

\* the loop of dedupe_adjacent_texts from some entry on; prev is <<>> for
\* None and <<s>> for the entry s just before
RECURSIVE DedupeFrom(_, _)
DedupeFrom(lines, prev) ==
    IF lines = <<>> THEN <<>>
    ELSE LET s == Head(lines)
         IN  (IF s # <<>> /\ prev # <<s>> THEN <<s>> ELSE <<>>)
             \o DedupeFrom(Tail(lines), <<s>>)

dedupe_adjacent_texts(lines) == DedupeFrom(lines, <<>>)

\* [A-Za-z]
Latin == {"a", "b", "c", "d", "e", "f", "g", "h", "i", "j", "k", "l", "m", "n", "o", "p", "q", "r", "s", "t", "u", "v", "w", "x", "y", "z",
          "A", "B", "C", "D", "E", "F", "G", "H", "I", "J", "K", "L", "M", "N", "O", "P", "Q", "R", "S", "T", "U", "V", "W", "X", "Y", "Z"}

\* [0-9]
Digit == {"0", "1", "2", "3", "4", "5", "6", "7", "8", "9"}

\* [\uAC00-\uD7A3], the Hangul syllables: the first and the last of the block
Hangul == {"U+AC00", "U+D7A3"}

\* [A-Za-z0-9\uAC00-\uD7A3\s?]
Kept == Latin \cup Digit \cup Hangul \cup WS \cup {"?"}

\* faulty variant: the full stop survives the filter
DropSpecialKeepsPeriod(s) == SelectSeq(s, LAMBDA c : c \in Kept \cup {"."})

\* faulty variant: the comma survives the filter
DropSpecialKeepsComma(s) == SelectSeq(s, LAMBDA c : c \in Kept \cup {","})

_drop_special_except_q(s) == SelectSeq(s, LAMBDA c : c \in Kept)

\* .replace("\n", " ").replace("\r", " ")
ReplaceNewlines(s) == [k \in 1..Len(s) |-> IF s[k] \in {"\n", "\r"} THEN " " ELSE s[k]]

\* re.sub(r"\s{2,}", " ", s): a run of two or more becomes one space, a
\* single whitespace character stays what it is
CollapseWS(s) ==
    LET n == Len(s)
        ws(k) == k >= 1 /\ k <= n /\ s[k] \in WS
        mark == [k \in 1..n |->
                    IF ~ws(k) THEN s[k]
                    ELSE IF ws(k - 1) THEN "DROP"
                    ELSE IF ws(k + 1) THEN " " ELSE s[k]]
    IN  SelectSeq(mark, LAMBDA c : c # "DROP")

\* faulty variant: the whitespace the filter left at an end stays
SanitizeNoFinalStrip(s) ==
    LET c == CollapseWS(_drop_special_except_q(Strip(ReplaceNewlines(s))))
    IN  IF c = <<>> THEN <<NBSP>> ELSE c

\* faulty variant: no placeholder for an empty result
SanitizeNoPlaceholder(s) ==
    Strip(CollapseWS(_drop_special_except_q(Strip(ReplaceNewlines(s)))))

sanitize_ass_text(s) ==
    LET a == Strip(ReplaceNewlines(s))
        b == _drop_special_except_q(a)
        c == Strip(CollapseWS(b))
    IN  IF c = <<>> THEN <<NBSP>> ELSE c

\* str.split(): the maximal runs of non-whitespace characters
RECURSIVE SplitWS(_)
SplitWS(s) ==
    LET nws == {k \in 1..Len(s) : s[k] \notin WS}
    IN  IF nws = {} THEN <<>>
        ELSE LET i    == SetMin(nws)
                 ends == {k \in i..Len(s) : k = Len(s) \/ s[k + 1] \in WS}
                 j    == SetMin(ends)
             IN  <<SubSeq(s, i, j)>> \o SplitWS(SubSeq(s, j + 1, Len(s)))

\* " ".join(ws)
RECURSIVE Join(_)
Join(ws) ==
    IF ws = <<>> THEN <<>>
    ELSE IF Len(ws) = 1 THEN ws[1]
    ELSE ws[1] \o <<" ">> \o Join(Tail(ws))

\* r"\N"
BreakMarker == <<"\\", "N">>

\* faulty variant: a word that fills the line exactly is not taken
RECURSIVE GreedyStopsShort(_, _, _)
GreedyStopsShort(left, words, biline_target) ==
    IF words # <<>> /\ Len(Join(Append(left, Head(words)))) < biline_target
    THEN GreedyStopsShort(Append(left, Head(words)), Tail(words), biline_target)
    ELSE [left |-> left, words |-> words]

\* the while loop of lines 63-64
RECURSIVE Greedy(_, _, _)
Greedy(left, words, biline_target) ==
    IF words # <<>> /\ Len(Join(Append(left, Head(words)))) <= biline_target
    THEN Greedy(Append(left, Head(words)), Tail(words), biline_target)
    ELSE [left |-> left, words |-> words]

\* t[:mid] and t[mid:]
Prefix(t, mid) == SubSeq(t, 1, SetMin({mid, Len(t)}))

Suffix(t, mid) == SubSeq(t, SetMin({mid, Len(t)}) + 1, Len(t))

\* faulty variant: the fallback cuts at the target, not at the midpoint
PrepareCutsAtTarget(text, one_line_threshold, biline_target) ==
    LET t == sanitize_ass_text(text)
        g == Greedy(<<>>, SplitWS(t), biline_target)
        right == Strip(Join(g.words))
        mid == SetMax({1, biline_target})
    IN  IF Len(t) <= one_line_threshold THEN t
        ELSE IF g.left = <<>> \/ right = <<>>
             THEN Prefix(t, mid) \o BreakMarker \o Suffix(t, mid)
             ELSE Join(g.left) \o BreakMarker \o right

\* faulty variant: a text at the threshold is wrapped already
PrepareWrapsAtThreshold(text, one_line_threshold, biline_target) ==
    LET t == sanitize_ass_text(text)
        g == Greedy(<<>>, SplitWS(t), biline_target)
        right == Strip(Join(g.words))
        mid == SetMax({1, Len(t) \div 2})
    IN  IF Len(t) < one_line_threshold THEN t
        ELSE IF g.left = <<>> \/ right = <<>>
             THEN Prefix(t, mid) \o BreakMarker \o Suffix(t, mid)
             ELSE Join(g.left) \o BreakMarker \o right

\* faulty variant: the first line takes one word beyond the target
PrepareOverfillsLeft(text, one_line_threshold, biline_target) ==
    LET t == sanitize_ass_text(text)
        g == Greedy(<<>>, SplitWS(t), biline_target + 2)
        right == Strip(Join(g.words))
        mid == SetMax({1, Len(t) \div 2})
    IN  IF Len(t) <= one_line_threshold THEN t
        ELSE IF g.left = <<>> \/ right = <<>>
             THEN Prefix(t, mid) \o BreakMarker \o Suffix(t, mid)
             ELSE Join(g.left) \o BreakMarker \o right

prepare_text_for_ass(text, one_line_threshold, biline_target) ==
    LET t == sanitize_ass_text(text)
        g == Greedy(<<>>, SplitWS(t), biline_target)
        right == Strip(Join(g.words))
        mid == SetMax({1, Len(t) \div 2})
    IN  IF Len(t) <= one_line_threshold THEN t
        ELSE IF g.left = <<>> \/ right = <<>>
             THEN Prefix(t, mid) \o BreakMarker \o Suffix(t, mid)
             ELSE Join(g.left) \o BreakMarker \o right

----------------------------------------------------------------------------
(* generate_timed_segments.py: pitch and colour *)

\* a pitch is <<>> (None) or <<v>>, v in hundredths of a semitone, cut
\* towards zero: v >= 100 * k exactly when the float is >= k, and
\* v <= -100 * k exactly when the float is <= -k, for every whole k
PitchUnit == 100

NoPitch == <<>>

\* trunc(100 * 12.0 * math.log2(1.0 + p / 100.0)) for p = -99 .. 100
Log2Cs ==
   <<
      -7972, -6772, -6070, -5572, -5186, -4870, -4603, -4372, -4168, -3986,
      -3821, -3670, -3532, -3403, -3284, -3172, -3067, -2968, -2875, -2786,
      -2701, -2621, -2544, -2470, -2400, -2332, -2266, -2203, -2143, -2084,
      -2027, -1972, -1919, -1867, -1817, -1768, -1721, -1675, -1630, -1586,
      -1543, -1501, -1461, -1421, -1382, -1344, -1307, -1270, -1234, -1200,
      -1165, -1132, -1099, -1066, -1034, -1003, -973, -943, -913, -884,
      -855, -827, -799, -772, -745, -719, -693, -667, -642, -617,
      -592, -568, -544, -521, -498, -475, -452, -430, -408, -386,
      -364, -343, -322, -301, -281, -261, -241, -221, -201, -182,
      -163, -144, -125, -107, -88, -70, -52, -34, -17, 0,
      17, 34, 51, 67, 84, 100, 117, 133, 149, 165,
      180, 196, 211, 226, 241, 256, 271, 286, 301, 315,
      330, 344, 358, 372, 386, 400, 413, 427, 440, 454,
      467, 480, 493, 506, 519, 532, 545, 557, 570, 582,
      594, 607, 619, 631, 643, 655, 666, 678, 690, 701,
      713, 724, 736, 747, 758, 769, 780, 791, 802, 813,
      824, 835, 845, 856, 866, 877, 887, 898, 908, 918,
      928, 938, 948, 958, 968, 978, 988, 998, 1007, 1017,
      1027, 1036, 1046, 1055, 1065, 1074, 1083, 1092, 1102, 1111,
      1120, 1129, 1138, 1147, 1156, 1165, 1173, 1182, 1191, 1200
   >>

\* 12.0 * math.log2(1.0 + p / 100.0); math.log2 raises for p <= -100
SemitonesOfPercent(p) == IF p <= -100 THEN NoPitch ELSE <<Log2Cs[p + 100]>>

DigitVal(c) ==
    CASE c = "0" -> 0 [] c = "1" -> 1 [] c = "2" -> 2 [] c = "3" -> 3 [] c = "4" -> 4
      [] c = "5" -> 5 [] c = "6" -> 6 [] c = "7" -> 7 [] c = "8" -> 8 [] c = "9" -> 9

\* int / float of a run of digits
RECURSIVE DigitsToInt(_)
DigitsToInt(ds) ==
    IF ds = <<>> THEN 0
    ELSE 10 * DigitsToInt(SubSeq(ds, 1, Len(ds) - 1)) + DigitVal(ds[Len(ds)])

\* s[i-1:j], as Python slices: what lies beyond the end is left out
Slice(s, i, j) ==
    IF i > SetMin({j, Len(s)}) THEN <<>> ELSE SubSeq(s, i, SetMin({j, Len(s)}))

PitchAttr == <<"p", "i", "t", "c", "h", "=", "\"">>

\* pitch=" at index k of s, ignoring case
PitchAttrAt(s, k) ==
    /\ LowerChar(s[k]) = PitchAttr[1]
    /\ Lower(Slice(s, k, k + Len(PitchAttr) - 1)) = PitchAttr

\* \s*([+-]?\d+)\s* after the pitch=" at index k of s: whether there are
\* digits, their value, and where what follows the whitespace begins
PitchNumberAt(s, k) ==
    LET a == k + Len(PitchAttr)
        b == SkipWS(s, a)
        c == IF b <= Len(s) /\ s[b] \in {"+", "-"} THEN b + 1 ELSE b
        d == SetMin({j \in c..Len(s) : s[j] \notin Digit} \cup {Len(s) + 1})
        e == SkipWS(s, d)
    IN  [ok    |-> d > c,
         value |-> IF d > c
                   THEN (IF s[b] = "-" THEN -1 ELSE 1) * DigitsToInt(SubSeq(s, c, d - 1))
                   ELSE 0,
         rest  |-> e]

\* re.search(r'pitch="\s*([+-]?\d+)\s*st"', s, re.I): the indices it matches at
StMatches(s) ==
    {k \in 1..Len(s) :
        /\ PitchAttrAt(s, k)
        /\ LET m == PitchNumberAt(s, k)
           IN  m.ok /\ Lower(Slice(s, m.rest, m.rest + 2)) = <<"s", "t", "\"">>}

\* re.search(r'pitch="\s*([+-]?\d+)\s*%[^"]*"', s, re.I)
PercentMatches(s) ==
    {k \in 1..Len(s) :
        /\ PitchAttrAt(s, k)
        /\ LET m == PitchNumberAt(s, k)
           IN  /\ m.ok
               /\ m.rest <= Len(s) /\ s[m.rest] = "%"
               /\ \E j \in (m.rest + 1)..Len(s) : s[j] = "\""}

\* faulty variant: the percent form is read as semitones
ExtractPercentAsSemitones(ssml_line) ==
    LET st  == StMatches(ssml_line)
        pct == PercentMatches(ssml_line)
    IN  IF st # {}
        THEN <<PitchUnit * PitchNumberAt(ssml_line, SetMin(st)).value>>
        ELSE IF pct # {}
        THEN <<PitchUnit * PitchNumberAt(ssml_line, SetMin(pct)).value>>
        ELSE NoPitch

\* the leftmost match of the semitone form, else of the percent form
_extract_pitch_value(ssml_line) ==
    LET st  == StMatches(ssml_line)
        pct == PercentMatches(ssml_line)
    IN  IF st # {}
        THEN <<PitchUnit * PitchNumberAt(ssml_line, SetMin(st)).value>>
        ELSE IF pct # {}
        THEN SemitonesOfPercent(PitchNumberAt(ssml_line, SetMin(pct)).value)
        ELSE NoPitch

NoColor == <<>>

Hex33CCFF == <<"3", "3", "C", "C", "F", "F">>

Hex55E0FF == <<"5", "5", "E", "0", "F", "F">>

Hex77F5FF == <<"7", "7", "F", "5", "F", "F">>

Hex7777FF == <<"7", "7", "7", "7", "F", "F">>

Hex8890FF == <<"8", "8", "9", "0", "F", "F">>

Hex99AAFF == <<"9", "9", "A", "A", "F", "F">>

\* faulty variant: the band edges themselves get the weaker colour
PitchToHexStrictEdges(pitch_st) ==
    IF pitch_st = NoPitch THEN NoColor
    ELSE LET v == pitch_st[1]
         IN  IF v > 8 * PitchUnit THEN Hex33CCFF
             ELSE IF v > 6 * PitchUnit THEN Hex55E0FF
             ELSE IF v > 4 * PitchUnit THEN Hex77F5FF
             ELSE IF v < -8 * PitchUnit THEN Hex7777FF
             ELSE IF v < -6 * PitchUnit THEN Hex8890FF
             ELSE IF v < -4 * PitchUnit THEN Hex99AAFF
             ELSE NoColor

_pitch_to_hex(pitch_st) ==
    IF pitch_st = NoPitch THEN NoColor
    ELSE LET v == pitch_st[1]
         IN  IF v >= 8 * PitchUnit THEN Hex33CCFF
             ELSE IF v >= 6 * PitchUnit THEN Hex55E0FF
             ELSE IF v >= 4 * PitchUnit THEN Hex77F5FF
             ELSE IF v <= -8 * PitchUnit THEN Hex7777FF
             ELSE IF v <= -6 * PitchUnit THEN Hex8890FF
             ELSE IF v <= -4 * PitchUnit THEN Hex99AAFF
             ELSE NoColor

----------------------------------------------------------------------------
(* generate_timed_segments.py: times *)

\* times are whole milliseconds here, as round(., 3) leaves them
MsPerSec == 1000

DigitChars == <<"0", "1", "2", "3", "4", "5", "6", "7", "8", "9">>

\* f"{n:d}" for n >= 0
RECURSIVE FmtInt(_)
FmtInt(n) ==
    IF n < 10 THEN <<DigitChars[n + 1]>>
    ELSE FmtInt(n \div 10) \o <<DigitChars[(n % 10) + 1]>>

\* f"{n:02d}" for n >= 0: two digits at least, more when n needs them
Fmt02(n) == IF n < 10 THEN <<"0">> \o FmtInt(n) ELSE FmtInt(n)

\* int(round((t - s) * 100)) for a fraction of frac milliseconds.  A
\* fraction half-way between two centiseconds is not half-way as a float,
\* and falls to either side: half_up tells which.
RoundCs(frac, half_up) ==
    LET q == frac \div 10
        r == frac % 10
    IN  IF r > 5 \/ (r = 5 /\ half_up) THEN q + 1 ELSE q

_fmt_time(t, half_up) ==
    LET t0 == IF t < 0 THEN 0 ELSE t
        h  == t0 \div (3600 * MsPerSec)
        t1 == t0 - h * 3600 * MsPerSec
        m  == t1 \div (60 * MsPerSec)
        t2 == t1 - m * 60 * MsPerSec
        s  == t2 \div MsPerSec
        cs == RoundCs(t2 - s * MsPerSec, half_up)
    IN  FmtInt(h) \o <<":">> \o Fmt02(m) \o <<":">> \o Fmt02(s) \o <<".">> \o Fmt02(cs)

----------------------------------------------------------------------------
(* Filesystem, paths, records *)

\* os.path.join(out_dir, f"tts_{i:03d}.mp3")
ChunkPath(i) == <<"assets/_tts_chunks/tts", i>>

\* os.path.join("assets", "auto", "_mix_audio.mp3")
FinalMix == <<"assets/auto/_mix_audio.mp3", 0>>

\* mix_polly's concat list, out_path + ".txt"
ListPath == <<"assets/auto/_mix_audio.mp3.txt", 0>>

\* os.path.join("assets", "auto", "subtitles.ass")
AssPath == <<"assets/auto/subtitles.ass", 0>>

ChunkDir == "assets/_tts_chunks"

AutoDir == "assets/auto"

Paths == {ChunkPath(i) : i \in 0..MaxResp} \cup {FinalMix, ListPath, AssPath}

Absent == [kind |-> "absent", ticks |-> 0, header |-> <<>>, cues |-> <<>>]

\* a readable audio file that plays for t ticks
Audio(t) == [kind |-> "audio", ticks |-> t, header |-> <<>>, cues |-> <<>>]

\* open(out_path, "wb").close(): a file of zero bytes
EmptyFile == [kind |-> "empty", ticks |-> 0, header |-> <<>>, cues |-> <<>>]

\* a subtitle file: the lines of the header block, then the Dialogue lines
AssFile(header, cues) == [kind |-> "ass", ticks |-> 0, header |-> header, cues |-> cues]

Call(svc, idx, ok) == [svc |-> svc, idx |-> idx, ok |-> ok]

NoResult == [kind |-> "none", segments |-> <<>>, chunk_paths |-> <<>>, ass_path |-> <<>>]

Raised == [kind |-> "raise", segments |-> <<>>, chunk_paths |-> <<>>, ass_path |-> <<>>]

Returned(segs, paths, ass) ==
    [kind |-> "return", segments |-> segs, chunk_paths |-> paths, ass_path |-> ass]

Min2(a, b) == IF a < b THEN a ELSE b

\* the number of rounds of zip(chunk_paths, clause_lines, ssml_lines)
ZipLen(a, b, c) == Min2(Len(a), Min2(Len(b), Len(c)))

RECURSIVE SumTicks(_, _)
SumTicks(fs, paths) ==
    IF paths = <<>> THEN 0 ELSE fs[Head(paths)].ticks + SumTicks(fs, Tail(paths))

\* where control goes when generate_subtitle_from_script returns or raises
AfterCall == IF entry = "run_job" THEN "rj_after" ELSE "done"

----------------------------------------------------------------------------
(* The run *)

\* the registry as the module defines it; a style line is one whole line
Registry ==
    [educational |->
        [Style |-> "Style: Default,Pretendard-Bold,56,&H00FFFFFF,&H000000FF,&H00000000,&H00000000,-1,0,0,0,100,100,0,0,1,2,2,10,10,40,1",
         Pos   |-> <<"{", "\\", "a", "n", "2", "}">>],
     center |->
        [Style |-> "Style: Default,Pretendard-Bold,64,&H00FFFFFF,&H000000FF,&H00000000,&H00000000,-1,0,0,0,100,100,0,0,5,2,2,10,10,40,1",
         Pos   |-> <<"{", "\\", "a", "n", "5", "}">>]]

Init ==
    /\ entry \in {"run_job", "generate_subtitle_from_script"}
    /\ IF entry = "run_job"
       THEN /\ script_text \in Scripts
            /\ persona_prompt \in {<<>>, <<"p">>}
            /\ pre_split_lines = <<>>
            /\ pc = "run_job"
       ELSE /\ pre_split_lines \in PreSplitInputs
            \* the script is read only when no lines are pre-supplied
            /\ script_text \in IF pre_split_lines = <<>> THEN Scripts ELSE {<<"a">>}
            /\ persona_prompt = <<>>
            /\ pc = "gs_step1"
    /\ sentence_units = <<>>
    /\ clause_lines = <<>>
    /\ ssml_lines = <<>>
    /\ chunk_paths = <<>>
    /\ synth_ok = <<>>
    /\ files = [p \in Paths |-> Absent]
    /\ dirs = {}
    /\ segments = <<>>
    /\ cur = 0
    /\ calls = <<>>
    /\ result = NoResult
    /\ job_result = "running"
    /\ fn = "pipeline"
    /\ input = <<>>
    /\ output = <<>>
    /\ SUBTITLE_TEMPLATES = Registry
    /\ runs = <<>>

\* run_job, lines 93-97 with the script s that lines 78-91 settled on
RunJobSplit(s, log) ==
    IF s = <<>>
    THEN /\ job_result' = "None"
         /\ pc' = "done"
         /\ calls' = log
         /\ UNCHANGED << script_text, sentence_units >>
    ELSE /\ script_text' = s
         /\ sentence_units' =
                IF _split_to_sentences(s) = <<>> THEN <<s>> ELSE _split_to_sentences(s)
         /\ pc' = "rj_breath"
         /\ calls' = log
         /\ UNCHANGED job_result

\* run_job up to the sentence split: the script, or the persona's script
RunJobStart ==
    /\ pc = "run_job"
    /\ UNCHANGED fvars
    /\ IF Strip(script_text) = <<>> /\ Strip(persona_prompt) # <<>>
       THEN \E ok \in BOOLEAN, r \in Scripts :
               IF ok
               THEN RunJobSplit(Strip(r), Append(calls, Call("persona", -1, TRUE)))
               ELSE /\ job_result' = "None"
                    /\ pc' = "done"
                    /\ calls' = Append(calls, Call("persona", -1, FALSE))
                    /\ UNCHANGED << script_text, sentence_units >>
       ELSE RunJobSplit(Strip(script_text), calls)
    /\ UNCHANGED << entry, persona_prompt, pre_split_lines, clause_lines, ssml_lines,
                    chunk_paths, synth_ok, files, dirs, segments, cur, result >>

\* run_job: the clause breaker, with the sentence units as the fallback when it
\* raises; the lines go to generate_subtitle_from_script as pre_split_lines
RunJobBreath ==
    /\ pc = "rj_breath"
    /\ UNCHANGED fvars
    /\ \E ok \in BOOLEAN, resp \in BreathResps :
          /\ pre_split_lines' =
                IF ok THEN breath_linebreaks_batch(resp) ELSE sentence_units
          /\ calls' = Append(calls, Call("clause_breaker", -1, ok))
    /\ pc' = "gs_step1"
    /\ UNCHANGED << entry, script_text, persona_prompt, sentence_units, clause_lines,
                    ssml_lines, chunk_paths, synth_ok, files, dirs, segments, cur,
                    result, job_result >>

\* faulty variant: the short-circuit on zero units is missing
GsAfterStep1NoGuard(cl) ==
    /\ clause_lines' = cl
    /\ pc' = "gs_ssml"
    /\ UNCHANGED result

\* generate_subtitle_from_script after step 1 gave the units cl
GsAfterStep1(cl) ==
    /\ clause_lines' = cl
    /\ IF cl = <<>>
       THEN /\ result' = Returned(<<>>, <<>>, AssPath)
            /\ pc' = AfterCall
       ELSE /\ pc' = "gs_ssml"
            /\ UNCHANGED result

\* step 1 with pre-supplied lines
GsStep1PreSplit ==
    /\ pc = "gs_step1"
    /\ UNCHANGED fvars
    /\ pre_split_lines # <<>>
    /\ GsAfterStep1(StripNonBlank(pre_split_lines))
    /\ UNCHANGED << entry, script_text, persona_prompt, sentence_units, pre_split_lines,
                    ssml_lines, chunk_paths, synth_ok, files, dirs, segments, cur,
                    calls, job_result >>

\* step 1 without pre-supplied lines: the clause breaker is called, unguarded
GsStep1Breath ==
    /\ pc = "gs_step1"
    /\ UNCHANGED fvars
    /\ pre_split_lines = <<>>
    /\ \E ok \in BOOLEAN, resp \in BreathResps :
          /\ calls' = Append(calls, Call("clause_breaker", -1, ok))
          /\ IF ok
             THEN GsAfterStep1(breath_linebreaks_batch(resp))
             ELSE /\ result' = Raised
                  /\ pc' = AfterCall
                  /\ UNCHANGED clause_lines
    /\ UNCHANGED << entry, script_text, persona_prompt, sentence_units, pre_split_lines,
                    ssml_lines, chunk_paths, synth_ok, files, dirs, segments, cur,
                    job_result >>

\* step 2, the markup converter (unguarded), then the chunk directory and the
\* start of synthesize_lines_polly
GsSsml ==
    /\ pc = "gs_ssml"
    /\ UNCHANGED fvars
    /\ IF clause_lines = <<>>
       THEN \* convert_lines_to_ssml_batch returns [] before it calls the LLM
            /\ ssml_lines' = <<>>
            /\ dirs' = dirs \cup {ChunkDir}
            /\ pc' = "mix"
            /\ UNCHANGED << calls, result >>
       ELSE \E ok \in BOOLEAN, resp \in SsmlResps :
               /\ calls' = Append(calls, Call("markup_converter", -1, ok))
               /\ IF ok
                  THEN /\ ssml_lines' = convert_lines_to_ssml_batch(clause_lines, resp)
                       /\ dirs' = dirs \cup {ChunkDir}
                       /\ pc' = IF ssml_lines' = <<>> THEN "mix" ELSE "synth"
                       /\ UNCHANGED result
                  ELSE /\ result' = Raised
                       /\ pc' = AfterCall
                       /\ UNCHANGED << ssml_lines, dirs >>
    /\ UNCHANGED << entry, script_text, persona_prompt, sentence_units, pre_split_lines,
                    clause_lines, chunk_paths, synth_ok, files, segments, cur,
                    job_result >>

\* what the try/except of synthesize_lines_polly leaves at out_path:
\* the stream Polly returned, or on failure the silence of _write_silence_mp3,
\* or an empty file when ffmpeg failed too
SynthFile(ok, t, ffmpeg_ok) ==
    IF ok THEN Audio(t)
    ELSE IF ffmpeg_ok THEN Audio(SilenceMs * TicksPerMs)
    ELSE EmptyFile

\* faulty variant: the loop steps over every other line
NextLineSkipsOne(i, ok) == i + 2

\* faulty variant: a failed line ends the loop
NextLineBreakOnFailure(i, ok) == IF ok THEN i + 1 ELSE MaxResp + 1

\* the loop goes on to line i + 1 whether line i was synthesized or not: the
\* try/except lies inside the loop body
NextLine(i, ok) == i + 1

\* one round of the loop of synthesize_lines_polly: line i = Len(chunk_paths)
SynthLine ==
    /\ pc = "synth"
    /\ UNCHANGED fvars
    /\ LET i == Len(chunk_paths)
       IN  /\ i < Len(ssml_lines)
           /\ \E ok \in BOOLEAN, t \in PollyTicks, ffmpeg_ok \in BOOLEAN :
                 /\ files' = [files EXCEPT ![ChunkPath(i)] = SynthFile(ok, t, ffmpeg_ok)]
                 /\ synth_ok' = Append(synth_ok, ok)
                 /\ calls' = Append(calls, Call("synthesizer", i, ok))
                 /\ chunk_paths' = Append(chunk_paths, ChunkPath(i))
                 /\ pc' = IF NextLine(i, ok) >= Len(ssml_lines) THEN "mix" ELSE "synth"
    /\ UNCHANGED << entry, script_text, persona_prompt, sentence_units, pre_split_lines,
                    clause_lines, ssml_lines, dirs, segments, cur, result, job_result >>

\* mix_polly: the concat list is written, ffmpeg concatenates the chunks in
\* order (copy, else re-encode, else nothing), the list is removed
MixPolly ==
    /\ pc = "mix"
    /\ UNCHANGED fvars
    /\ dirs' = dirs \cup {AutoDir}
    /\ \E ok \in BOOLEAN :
          /\ files' = [files EXCEPT
                         ![FinalMix] = IF ok THEN Audio(SumTicks(files, chunk_paths)) ELSE @,
                         ![ListPath] = Absent]
          /\ calls' = Append(calls, Call("concatenator", Len(chunk_paths), ok))
    /\ pc' = IF ZipLen(chunk_paths, clause_lines, ssml_lines) = 0 THEN "emit" ELSE "timing"
    /\ UNCHANGED << entry, script_text, persona_prompt, sentence_units, pre_split_lines,
                    clause_lines, ssml_lines, chunk_paths, synth_ok, segments, cur,
                    result, job_result >>

\* faulty variant: the measured duration is ignored
UnitTicksAlwaysEstimate(f, text) == EstimateTicks(text)

\* the duration of a unit: AudioFileClip(p).duration, or the estimate when the
\* file cannot be read
UnitTicks(f, text) ==
    IF f.kind = "audio" THEN f.ticks ELSE EstimateTicks(text)

\* faulty variant: the end is truncated to the millisecond instead of rounded
SegmentTruncEnd(clock, dur, text, ssml) ==
    [start |-> Round3(clock), end |-> (clock + dur) \div TicksPerMs,
     text |-> text, ssml |-> ssml]

\* faulty variant: the duration is rounded on its own and added to the rounded start
SegmentRoundedDur(clock, dur, text, ssml) ==
    [start |-> Round3(clock), end |-> Round3(clock) + Round3(dur),
     text |-> text, ssml |-> ssml]

\* start, end = cur, cur + dur, rounded to milliseconds
Segment(clock, dur, text, ssml) ==
    [start |-> Round3(clock), end |-> Round3(clock + dur), text |-> text, ssml |-> ssml]

\* one round of the timing loop: unit k = Len(segments) + 1
TimingStep ==
    /\ pc = "timing"
    /\ UNCHANGED fvars
    /\ LET k   == Len(segments) + 1
           dur == UnitTicks(files[chunk_paths[k]], clause_lines[k])
       IN  /\ k <= ZipLen(chunk_paths, clause_lines, ssml_lines)
           /\ segments' = Append(segments, Segment(cur, dur, clause_lines[k], ssml_lines[k]))
           /\ cur' = cur + dur
           /\ pc' = IF k = ZipLen(chunk_paths, clause_lines, ssml_lines)
                    THEN "emit" ELSE "timing"
    /\ UNCHANGED << entry, script_text, persona_prompt, sentence_units, pre_split_lines,
                    clause_lines, ssml_lines, chunk_paths, synth_ok, files, dirs, calls,
                    result, job_result >>

\* max_chars_per_line, by default and as generate_subtitle_from_script passes it
MaxCharsPerLine == 14

\* faulty variant: an unknown name gets the other template
TemplateFallsBackToCenter(template_name) ==
    IF template_name \in DOMAIN SUBTITLE_TEMPLATES
    THEN SUBTITLE_TEMPLATES[template_name]
    ELSE SUBTITLE_TEMPLATES["center"]

\* SUBTITLE_TEMPLATES.get(template_name, SUBTITLE_TEMPLATES["educational"])
Template(template_name) ==
    IF template_name \in DOMAIN SUBTITLE_TEMPLATES
    THEN SUBTITLE_TEMPLATES[template_name]
    ELSE SUBTITLE_TEMPLATES["educational"]

\* tmpl["Pos"]
Anchor(template_name) == Template(template_name).Pos

\* faulty variant: the header block stops before the events section
AssHeaderWithoutEvents(style_line) ==
    <<"[Script Info]",
      "ScriptType: v4.00+",
      "Collisions: Normal",
      "PlayResX: 1080",
      "PlayResY: 1920",
      "ScaledBorderAndShadow: yes",
      "",
      "[V4+ Styles]",
      "Format: Name, Fontname, Fontsize, PrimaryColour, SecondaryColour, OutlineColour, BackColour, Bold, Italic, Underline, StrikeOut, ScaleX, ScaleY, Spacing, Angle, BorderStyle, Outline, Shadow, Alignment, MarginL, MarginR, MarginV, Encoding",
      style_line,
      "">>

\* the lines of the header block; it ends with a newline, so that an empty
\* line follows the event format line
_ass_header(style_line) ==
    <<"[Script Info]",
      "ScriptType: v4.00+",
      "Collisions: Normal",
      "PlayResX: 1080",
      "PlayResY: 1920",
      "ScaledBorderAndShadow: yes",
      "",
      "[V4+ Styles]",
      "Format: Name, Fontname, Fontsize, PrimaryColour, SecondaryColour, OutlineColour, BackColour, Bold, Italic, Underline, StrikeOut, ScaleX, ScaleY, Spacing, Angle, BorderStyle, Outline, Shadow, Alignment, MarginL, MarginR, MarginV, Encoding",
      style_line,
      "",
      "[Events]",
      "Format: Layer, Start, End, Style, Name, MarginL, MarginR, MarginV, Effect, Text",
      "">>

\* [.!...], the third character being U+2026
TrailingPunct == {".", "!", "U+2026"}

\* re.sub(r"[.!...]+$", "", raw)
StripTrailingPunct(raw) ==
    LET n == Len(raw)
    IN  IF \A k \in 1..n : raw[k] \in TrailingPunct THEN <<>>
        ELSE LET r == CHOOSE k \in 1..n :
                          /\ raw[n + 1 - k] \notin TrailingPunct
                          /\ \A j \in 1..(k - 1) : raw[n + 1 - j] \in TrailingPunct
             IN  SubSeq(raw, 1, n + 1 - r)

\* faulty variant: every segment's trailing punctuation is stripped
RawTextStripsAll(segs, i, strip_last) ==
    IF strip_last
    THEN Strip(StripTrailingPunct(Strip(segs[i].text)))
    ELSE Strip(segs[i].text)

\* lines 144-147: the text of segment i as it goes into the sanitizer
RawText(segs, i, strip_last) ==
    IF strip_last /\ i = Len(segs)
    THEN Strip(StripTrailingPunct(Strip(segs[i].text)))
    ELSE Strip(segs[i].text)

\* faulty variant: the tag is written whether or not there is a colour
ColorTagAlways(hexcol) ==
    <<"{", "\\", "c", "&", "H">> \o hexcol \o <<"&", "}">>

\* r"{\c&H" + hexcol + "&}" if hexcol else ""
ColorTag(hexcol) ==
    IF hexcol # NoColor
    THEN <<"{", "\\", "c", "&", "H">> \o hexcol \o <<"&", "}">>
    ELSE <<>>

DialoguePrefix == <<"D", "i", "a", "l", "o", "g", "u", "e", ":", " ", "0", ",">>

DialogueStyle == <<",", "D", "e", "f", "a", "u", "l", "t", ",", ",", "0", ",", "0", ",", "0", ",", ",">>

\* the times of segs whose fraction is half-way between two centiseconds
TieTimes(segs) ==
    {t \in {segs[k].start : k \in 1..Len(segs)} \cup {segs[k].end : k \in 1..Len(segs)} :
        t >= 0 /\ t % 10 = 5}

\* the body of the loop of lines 141-160 for segment i of segs; strip_last
\* is strip_trailing_punct_last
DialogueLine(segs, i, template_name, strip_last, max_chars_per_line, max_lines, half_up) ==
    LET seg  == segs[i]
        s    == _fmt_time(seg.start, seg.start \in half_up)
        e    == _fmt_time(seg.end, seg.end \in half_up)
        raw  == RawText(segs, i, strip_last)
        txt0 == sanitize_ass_text(raw)
        txt  == IF max_lines = 2 /\ Len(txt0) > max_chars_per_line
                THEN prepare_text_for_ass(txt0, max_chars_per_line, max_chars_per_line + 2)
                ELSE txt0
        hexcol == _pitch_to_hex(_extract_pitch_value(seg.ssml))
    IN  DialoguePrefix \o s \o <<",">> \o e \o DialogueStyle
            \o Anchor(template_name) \o ColorTag(hexcol) \o txt

\* generate_ass_subtitle: the header block, then one Dialogue line per
\* segment, written over whatever is there.  half_up is the set of times whose half-way fraction
\* the float product rounds up.
generate_ass_subtitle(segs, template_name, strip_last, max_chars_per_line, max_lines, half_up) ==
    AssFile(_ass_header(Template(template_name).Style),
            [i \in 1..Len(segs) |->
                DialogueLine(segs, i, template_name, strip_last,
                             max_chars_per_line, max_lines, half_up)])

\* step 5 and the return
EmitAss ==
    /\ pc = "emit"
    /\ UNCHANGED fvars
    /\ dirs' = dirs \cup {AutoDir}
    /\ \E half_up \in SUBSET TieTimes(segments) :
          files' = [files EXCEPT ![AssPath] =
                       generate_ass_subtitle(segments, "educational", TRUE,
                                             MaxCharsPerLine, 2, half_up)]
    /\ result' = Returned(segments, chunk_paths, AssPath)
    /\ pc' = AfterCall
    /\ UNCHANGED << entry, script_text, persona_prompt, sentence_units, pre_split_lines,
                    clause_lines, ssml_lines, chunk_paths, synth_ok, segments, cur,
                    calls, job_result >>

\* run_job's try/except around the call: None on any exception, else it goes
\* on with the segments it got
RunJobAfter ==
    /\ pc = "rj_after"
    /\ UNCHANGED fvars
    /\ job_result' = IF result.kind = "raise" THEN "None" ELSE "segments"
    /\ pc' = "done"
    /\ UNCHANGED << entry, script_text, persona_prompt, sentence_units, pre_split_lines,
                    clause_lines, ssml_lines, chunk_paths, synth_ok, files, dirs,
                    segments, cur, calls, result >>

Next ==
    \/ RunJobStart
    \/ RunJobBreath
    \/ GsStep1PreSplit
    \/ GsStep1Breath
    \/ GsSsml
    \/ SynthLine
    \/ MixPolly
    \/ TimingStep
    \/ EmitAss
    \/ RunJobAfter

Spec == Init /\ [][Next]_vars

----------------------------------------------------------------------------
(* The functions of generate_timed_segments.py and runner.py, called on their own *)

\* characters of every class the sanitizer tells apart
SanAlphabet == {"a", "U+AC00", " ", "\n", "\r", "?", ",", ".", "{", "\\", NBSP}

SanTexts == SeqsUpTo(SanAlphabet, MaxSanLen)

\* no pipeline is running
NoRun ==
    /\ pc = "done"
    /\ entry = "none"
    /\ script_text = <<>>
    /\ persona_prompt = <<>>
    /\ pre_split_lines = <<>>
    /\ sentence_units = <<>>
    /\ clause_lines = <<>>
    /\ ssml_lines = <<>>
    /\ chunk_paths = <<>>
    /\ synth_ok = <<>>
    /\ dirs = {}
    /\ segments = <<>>
    /\ cur = 0
    /\ calls = <<>>
    /\ result = NoResult
    /\ job_result = "running"

\* the state of a pipeline run but for the filesystem
pvarsButFs == << pc, entry, script_text, persona_prompt, sentence_units, pre_split_lines,
                 clause_lines, ssml_lines, chunk_paths, synth_ok, segments,
                 cur, calls, result, job_result >>

NoFiles == [p \in Paths |-> Absent]

\* a subtitle file of an earlier run, of another template and with three lines
OldAssFile ==
    AssFile(_ass_header(Registry.center.Style), <<DialoguePrefix, DialoguePrefix, DialoguePrefix>>)

\* one character kept, one removed, and the space
WrapAlphabet == {"a", ",", " "}

\* the defaults of the signature
OneLineThreshold == 14

BilineTarget == 16

\* scenario 3: twenty Hangul syllables and no space
Hangul20 == Rep("U+AC00", 20)

WrapArgs ==
    [text : SeqsUpTo(WrapAlphabet, MaxWrapLen),
     one_line_threshold : 0..MaxThr,
     biline_target : 0..(MaxThr + 1)]
    \cup [text : {Hangul20, T42, T42 \o <<" ">> \o T42, <<"a", " ">> \o T42},
          one_line_threshold : {OneLineThreshold},
          biline_target : {BilineTarget}]

Pitches == {NoPitch} \cup {<<v>> : v \in (-MaxPitchCs)..MaxPitchCs}

\* negative times, the first second and more, and the last and first
\* hundredths of a second around 1 min, 1 h and 1 h 1 min
Times ==
    (-3..MaxFmtMs)
    \cup {b + d : b \in {60 * MsPerSec, 3600 * MsPerSec, 3660 * MsPerSec}, d \in (-12)..12}

\* no pitch directive
MarkupPlain ==
    <<"<", "s", "p", "e", "a", "k", ">", "a", "<", "/", "s", "p", "e", "a",
      "k", ">">>

\* scenario 4
MarkupSt9 ==
    <<"<", "p", "r", "o", "s", "o", "d", "y", " ", "p", "i", "t", "c", "h",
      "=", "\"", "+", "9", "s", "t", "\"", ">", "a", "<", "/", "p", "r", "o",
      "s", "o", "d", "y", ">">>

\* a pitch inside the colourless band
MarkupSt3 ==
    <<"<", "p", "r", "o", "s", "o", "d", "y", " ", "p", "i", "t", "c", "h",
      "=", "\"", "+", "3", "s", "t", "\"", ">", "a", "<", "/", "p", "r", "o",
      "s", "o", "d", "y", ">">>

\* upper case, spaces, a negative band edge
MarkupStLow ==
    <<"<", "p", "r", "o", "s", "o", "d", "y", " ", "P", "I", "T", "C", "H",
      "=", "\"", " ", "-", "6", " ", "S", "T", "\"", ">", "a", "<", "/", "p",
      "r", "o", "s", "o", "d", "y", ">">>

\* the percent form: 12 * log2(1.5) = 7.02 semitones
MarkupPct50 ==
    <<"<", "p", "r", "o", "s", "o", "d", "y", " ", "p", "i", "t", "c", "h",
      "=", "\"", "+", "5", "0", "%", "\"", ">", "a", "<", "/", "p", "r", "o",
      "s", "o", "d", "y", ">">>

\* the percent form where the logarithm is undefined
MarkupPctFloor ==
    <<"<", "p", "r", "o", "s", "o", "d", "y", " ", "p", "i", "t", "c", "h",
      "=", "\"", "-", "1", "0", "0", "%", "\"", ">", "a", "<", "/", "p", "r",
      "o", "s", "o", "d", "y", ">">>

\* a fraction: neither pattern matches
MarkupFraction ==
    <<"<", "p", "r", "o", "s", "o", "d", "y", " ", "p", "i", "t", "c", "h",
      "=", "\"", "+", "1", ".", "5", "s", "t", "\"", ">", "a", "<", "/", "p",
      "r", "o", "s", "o", "d", "y", ">">>

\* a percent directive before a semitone one
MarkupBoth ==
    <<"<", "p", "r", "o", "s", "o", "d", "y", " ", "p", "i", "t", "c", "h",
      "=", "\"", "+", "2", "0", "%", "\"", ">", "a", "<", "p", "r", "o", "s",
      "o", "d", "y", " ", "p", "i", "t", "c", "h", "=", "\"", "+", "9", "s",
      "t", "\"", ">", "b">>

Markups ==
    {MarkupPlain, MarkupSt9, MarkupSt3, MarkupStLow,
     MarkupPct50, MarkupPctFloor, MarkupFraction, MarkupBoth}

\* the texts of the segments handed to generate_ass_subtitle on its own:
\* short, empty, with removed characters, with punctuation at the end, and
\* longer than a line, split at a word boundary (17 characters) and at the
\* midpoint (16)
EmitShort == <<"a">>

EmitPunct == <<"a", ",", " ", "b", ".">>

EmitTrail == <<"a", ".", " ", "!", "U+2026">>

EmitGreedy == Rep("a", 7) \o <<" ">> \o Rep("b", 9)

EmitMidpoint == Rep("a", 7) \o <<" ">> \o Rep("b", 8)

Seg(start, end, text, ssml) == [start |-> start, end |-> end, text |-> text, ssml |-> ssml]

\* times in milliseconds: before and after the last hundredths of a second,
\* a half-way fraction, almost a minute
EmitSegs ==
    {Seg(0, 996, EmitShort, MarkupSt9),
     Seg(996, 2005, EmitPunct, MarkupPlain),
     Seg(2005, 59999, EmitGreedy, MarkupPct50),
     Seg(1230, 4560, <<>>, MarkupSt3),
     Seg(120, 1230, EmitMidpoint, MarkupStLow),
     Seg(4560, 7000, EmitTrail, MarkupBoth)}

EmitArgs ==
    [segments : SeqsUpTo(EmitSegs, MaxCues),
     template_name : {"educational", "center", "unknown"},
     strip_trailing_punct_last : BOOLEAN,
     max_lines : {1, 2}]

\* scripts over a letter, two terminal marks, a comma and two kinds of
\* whitespace
ScriptAlphabet == {"a", ".", "?", ",", " ", "\n"}

\* the script of the two-sentence scenario: five syllables, ".", a space,
\* five syllables, "!"
ScenarioOne ==
    <<"U+C548", "U+B155", "U+D558", "U+C138", "U+C694", ".", " ",
      "U+BC18", "U+AC11", "U+C2B5", "U+B2C8", "U+B2E4", "!">>

SplitScripts == SeqsUpTo(ScriptAlphabet, MaxScriptLen) \cup {ScenarioOne}

\* keyword lists with and without a repeated keyword, and segment counts
\* from below zero to more than the keywords
DistributeArgs ==
    [keywords : SeqsUpTo({"k1", "k2"}, MaxKeywords), n_segments : (-1)..MaxSegments]

\* lists of two texts and the empty string
DedupeArgs == SeqsUpTo({<<>>, <<"a">>, <<"b">>}, MaxDedupeLen)

FnInit ==
    /\ NoRun
    /\ output = <<>>
    /\ SUBTITLE_TEMPLATES = Registry
    /\ runs = <<>>
    /\ \/ fn = "sanitize_ass_text" /\ input \in SanTexts
       \/ fn = "prepare_text_for_ass" /\ input \in WrapArgs
       \/ fn = "_pitch_to_hex" /\ input \in Pitches
       \/ fn = "_fmt_time" /\ input \in Times
       \/ fn = "_extract_pitch_value" /\ input \in Markups \cup {<<>>}
       \/ fn = "generate_ass_subtitle" /\ input \in EmitArgs
       \/ fn = "_split_to_sentences" /\ input \in SplitScripts
       \/ fn = "dedupe_adjacent_texts" /\ input \in DedupeArgs
       \/ fn = "_distribute_sentence_keywords_to_segments" /\ input \in DistributeArgs
    /\ IF fn = "generate_ass_subtitle"
       THEN files \in {NoFiles, [NoFiles EXCEPT ![AssPath] = OldAssFile]}
       ELSE files = NoFiles

CallSanitize ==
    /\ fn = "sanitize_ass_text"
    /\ output = <<>>
    /\ output' = <<sanitize_ass_text(input)>>
    /\ UNCHANGED << fn, input, SUBTITLE_TEMPLATES, runs >>
    /\ UNCHANGED pvars

CallPrepare ==
    /\ fn = "prepare_text_for_ass"
    /\ output = <<>>
    /\ output' = <<prepare_text_for_ass(input.text, input.one_line_threshold,
                                        input.biline_target)>>
    /\ UNCHANGED << fn, input, SUBTITLE_TEMPLATES, runs >>
    /\ UNCHANGED pvars

CallPitchToHex ==
    /\ fn = "_pitch_to_hex"
    /\ output = <<>>
    /\ output' = <<_pitch_to_hex(input)>>
    /\ UNCHANGED << fn, input, SUBTITLE_TEMPLATES, runs >>
    /\ UNCHANGED pvars

\* the float product decides on which side a half-way fraction falls
CallFmtTime ==
    /\ fn = "_fmt_time"
    /\ output = <<>>
    /\ \E half_up \in BOOLEAN : output' = <<_fmt_time(input, half_up)>>
    /\ UNCHANGED << fn, input, SUBTITLE_TEMPLATES, runs >>
    /\ UNCHANGED pvars

CallExtractPitch ==
    /\ fn = "_extract_pitch_value"
    /\ output = <<>>
    /\ output' = <<_extract_pitch_value(input)>>
    /\ UNCHANGED << fn, input, SUBTITLE_TEMPLATES, runs >>
    /\ UNCHANGED pvars

CallDistribute ==
    /\ fn = "_distribute_sentence_keywords_to_segments"
    /\ output = <<>>
    /\ output' = <<_distribute_sentence_keywords_to_segments(input.keywords,
                                                             input.n_segments)>>
    /\ UNCHANGED << fn, input, SUBTITLE_TEMPLATES, runs >>
    /\ UNCHANGED pvars

CallDedupe ==
    /\ fn = "dedupe_adjacent_texts"
    /\ output = <<>>
    /\ output' = <<dedupe_adjacent_texts(input)>>
    /\ UNCHANGED << fn, input, SUBTITLE_TEMPLATES, runs >>
    /\ UNCHANGED pvars

CallSplitToSentences ==
    /\ fn = "_split_to_sentences"
    /\ output = <<>>
    /\ output' = <<_split_to_sentences(input)>>
    /\ UNCHANGED << fn, input, SUBTITLE_TEMPLATES, runs >>
    /\ UNCHANGED pvars

\* the file that generate_ass_subtitle writes
CallGenerateAss ==
    /\ fn = "generate_ass_subtitle"
    /\ output = <<>>
    /\ \E half_up \in SUBSET TieTimes(input.segments) :
          LET f == generate_ass_subtitle(input.segments, input.template_name,
                                         input.strip_trailing_punct_last,
                                         MaxCharsPerLine, input.max_lines, half_up)
          IN  /\ files' = [files EXCEPT ![AssPath] = f]
              /\ output' = <<f>>
    /\ dirs' = dirs \cup {AutoDir}
    /\ UNCHANGED << fn, input, SUBTITLE_TEMPLATES, runs >>
    /\ UNCHANGED pvarsButFs

FnNext ==
    \/ CallSanitize
    \/ CallPrepare
    \/ CallPitchToHex
    \/ CallFmtTime
    \/ CallExtractPitch
    \/ CallGenerateAss
    \/ CallSplitToSentences
    \/ CallDistribute
    \/ CallDedupe

FnSpec == FnInit /\ [][FnNext]_vars

----------------------------------------------------------------------------
(* Two calls of generate_subtitle_from_script at the same time, from step 3
   on: each has its own locals and its own subtitle path, and both use the
   paths that the function builds from constants *)

OtherAssPath == <<"assets/auto/other.ass", 0>>

ConcPaths == Paths \cup {OtherAssPath}

\* the two calls
Runs == {1, 2}

\* what the synthesis of one line leaves at its path when nothing else
\* writes there: Polly's audio, or the silence written on failure
ConcSpeech == {SynthFile(TRUE, t, TRUE) : t \in PollyTicks} \cup {SynthFile(FALSE, 0, TRUE)}

\* the locals of a call that is about to synthesize n lines
RunLocals(ass_path, speech) ==
    [pc |-> "synth",
     clause_lines |-> [i \in 1..Len(speech) |-> <<"a">>],
     ssml_lines |-> [i \in 1..Len(speech) |-> EmptySpeak],
     speech |-> speech,
     chunk_paths |-> <<>>,
     segments |-> <<>>,
     cur |-> 0,
     ass_path |-> ass_path,
     result |-> NoResult]

ConcInit ==
    /\ NoRun
    /\ fn = "concurrent"
    /\ input = <<>>
    /\ output = <<>>
    /\ SUBTITLE_TEMPLATES = Registry
    /\ files = [p \in ConcPaths |-> Absent]
    /\ \E a, b \in SeqsUpTo(ConcSpeech, MaxConcUnits) \ {<<>>} :
          runs = <<RunLocals(AssPath, a), RunLocals(OtherAssPath, b)>>

ConcUnchanged ==
    /\ UNCHANGED << fn, input, output, SUBTITLE_TEMPLATES >>
    /\ UNCHANGED pvarsButFs

\* one round of the loop of synthesize_lines_polly in call r
ConcSynthLine(r) ==
    /\ runs[r].pc = "synth"
    /\ LET me == runs[r]
           i  == Len(me.chunk_paths)
       IN  /\ files' = [files EXCEPT ![ChunkPath(i)] = me.speech[i + 1]]
           /\ runs' = [runs EXCEPT ![r].chunk_paths = Append(@, ChunkPath(i)),
                                   ![r].pc = IF i + 1 >= Len(me.ssml_lines)
                                             THEN "mix" ELSE "synth"]
    /\ dirs' = dirs \cup {ChunkDir}
    /\ ConcUnchanged

\* mix_polly in call r
ConcMixPolly(r) ==
    /\ runs[r].pc = "mix"
    /\ dirs' = dirs \cup {AutoDir}
    /\ \E ok \in BOOLEAN :
          files' = [files EXCEPT
                      ![FinalMix] = IF ok THEN Audio(SumTicks(files, runs[r].chunk_paths)) ELSE @,
                      ![ListPath] = Absent]
    /\ runs' = [runs EXCEPT ![r].pc = "timing"]
    /\ ConcUnchanged

\* one round of the timing loop in call r
ConcTimingStep(r) ==
    /\ runs[r].pc = "timing"
    /\ LET me  == runs[r]
           k   == Len(me.segments) + 1
           dur == UnitTicks(files[me.chunk_paths[k]], me.clause_lines[k])
       IN  runs' = [runs EXCEPT
                      ![r].segments = Append(@, Segment(me.cur, dur, me.clause_lines[k],
                                                        me.ssml_lines[k])),
                      ![r].cur = me.cur + dur,
                      ![r].pc = IF k = Len(me.chunk_paths) THEN "emit" ELSE "timing"]
    /\ UNCHANGED << files, dirs >>
    /\ ConcUnchanged

\* step 5 and the return in call r
ConcEmitAss(r) ==
    /\ runs[r].pc = "emit"
    /\ LET me == runs[r]
       IN  /\ \E half_up \in SUBSET TieTimes(me.segments) :
                 files' = [files EXCEPT ![me.ass_path] =
                              generate_ass_subtitle(me.segments, "educational", TRUE,
                                                    MaxCharsPerLine, 2, half_up)]
           /\ runs' = [runs EXCEPT
                          ![r].result = Returned(me.segments, me.chunk_paths, me.ass_path),
                          ![r].pc = "done"]
    /\ dirs' = dirs \cup {AutoDir}
    /\ ConcUnchanged

ConcNext ==
    \/ \E r \in Runs : ConcSynthLine(r)
    \/ \E r \in Runs : ConcMixPolly(r)
    \/ \E r \in Runs : ConcTimingStep(r)
    \/ \E r \in Runs : ConcEmitAss(r)

ConcSpec == ConcInit /\ [][ConcNext]_vars

----------------------------------------------------------------------------
(* Properties *)

Abs(x) == IF x < 0 THEN -x ELSE x

Last(q) == q[Len(q)]

\* clamp(len / 7.0, 0.6, 8.0) seconds in ticks, written out independently
ClampedEstimate(n) ==
    IF n * 1000 < 600 * TicksPerMs THEN 600 * TicksPerMs
    ELSE IF n * 1000 > 8000 * TicksPerMs THEN 8000 * TicksPerMs
    ELSE n * 1000

\* the duration the timing loop gave unit k, summed over the first n units
RECURSIVE SumUnitTicks(_)
SumUnitTicks(n) ==
    IF n = 0 THEN 0
    ELSE SumUnitTicks(n - 1)
         + (IF files[chunk_paths[n]].kind = "audio"
            THEN files[chunk_paths[n]].ticks
            ELSE ClampedEstimate(Len(clause_lines[n])))

\* the estimates of the units whose file cannot be read
RECURSIVE SumUnreadable(_)
SumUnreadable(n) ==
    IF n = 0 THEN 0
    ELSE SumUnreadable(n - 1)
         + (IF files[chunk_paths[n]].kind = "audio"
            THEN 0
            ELSE ClampedEstimate(Len(clause_lines[n])))

Finished == result.kind = "return" /\ result.segments # <<>>

CallsOf(svcs) == SelectSeq(calls, LAMBDA c : c.svc \in svcs)

\* C1: the segments built so far are contiguous: the first starts at 0 and each
\* segment ends where the next one starts; starts ascend and nothing overlaps.
C1_Contiguous ==
    segments # <<>> =>
        /\ segments[1].start = 0
        /\ \A k \in 1..(Len(segments) - 1) :
              /\ segments[k].end = segments[k + 1].start
              /\ segments[k].start <= segments[k + 1].start
              /\ segments[k].end <= segments[k + 1].start

C1_Witness ==
    /\ pc = "done"
    /\ Len(result.segments) >= 2
    /\ result.segments[1].end = 1401
    /\ result.segments[2].start = 1401

\* C2: the end of the last segment minus the start of the first equals the sum
\* of the durations of the units timed so far, to millisecond rounding (half a
\* millisecond), and every segment has end >= start.
C2_SpanIsSum ==
    segments # <<>> =>
        /\ 2 * Abs((Last(segments).end - segments[1].start) * TicksPerMs
                   - SumUnitTicks(Len(segments))) <= TicksPerMs
        /\ \A k \in 1..Len(segments) : segments[k].end >= segments[k].start

C2_Witness ==
    /\ pc = "done"
    /\ Len(result.segments) = 2
    /\ SumUnitTicks(2) = 2 * 9805
    /\ Last(result.segments).end = 2801

\* C3 as stated: after a run that returned segments, the last end is the total
\* duration of the per-unit audio files, whatever became of each unit.
C3_EndIsAudioTotal ==
    Finished => Last(result.segments).end = Round3(SumTicks(files, chunk_paths))

\* C3 amended: the last end is the total duration of the per-unit audio files
\* plus the estimates of the units whose file cannot be read; it is the audio
\* total when every file can be read (synthesized, or the 0.6 s silence).
C3_EndIsAudioPlusEstimates ==
    Finished =>
        /\ Last(result.segments).end
              = Round3(SumTicks(files, chunk_paths) + SumUnreadable(Len(chunk_paths)))
        /\ (\A k \in 1..Len(chunk_paths) : files[chunk_paths[k]].kind = "audio")
              => Last(result.segments).end = Round3(SumTicks(files, chunk_paths))

C3_Witness ==
    /\ Finished
    /\ Len(chunk_paths) = 2
    /\ synth_ok = <<TRUE, FALSE>>
    /\ files[chunk_paths[2]] = Audio(SilenceMs * TicksPerMs)
    /\ files[FinalMix] = Audio(9805 + SilenceMs * TicksPerMs)
    /\ Last(result.segments).end = 2001

\* C4: whatever the markup converter answers, there are as many markup strings
\* as units, and the run returns one segment and one audio path per unit, in
\* unit order, segment k carrying the text of unit k.
C4_OnePerUnit ==
    /\ pc \in {"synth", "mix", "timing", "emit"} => Len(ssml_lines) = Len(clause_lines)
    /\ (result.kind = "return" /\ clause_lines # <<>>) =>
          /\ Len(ssml_lines) = Len(clause_lines)
          /\ Len(result.segments) = Len(clause_lines)
          /\ Len(result.chunk_paths) = Len(clause_lines)
          /\ \A k \in 1..Len(clause_lines) :
                /\ result.segments[k].text = clause_lines[k]
                /\ result.segments[k].ssml = ssml_lines[k]
                /\ result.chunk_paths[k] = ChunkPath(k - 1)

C4_Witness ==
    /\ pc = "done"
    /\ result.kind = "return"
    /\ clause_lines = <<T42, T60>>
    /\ ssml_lines = <<MarkupY, EmptySpeak>>
    /\ Len(result.segments) = 2

\* C5 as stated: with a non-empty script, a pipeline call made by run_job never
\* returns zero segments (the sentence units stand in for a clause breaker that
\* fails or returns nothing usable).
C5_NeverZeroSegments ==
    (entry = "run_job" /\ result.kind = "return") =>
        /\ result.segments # <<>>
        /\ (~calls[Len(CallsOf({"persona"})) + 1].ok) => clause_lines = sentence_units

\* C6 as stated: in run_job a failure of the clause breaker or of the markup
\* converter never aborts the run: it ends with segments and a subtitle file.
C6_CollaboratorFailureNeverAborts ==
    (/\ entry = "run_job"
     /\ pc = "done"
     /\ \E k \in 1..Len(calls) :
           calls[k].svc \in {"clause_breaker", "markup_converter"} /\ ~calls[k].ok)
    => /\ job_result = "segments"
       /\ result.kind = "return"
       /\ result.segments # <<>>
       /\ files[AssPath].kind = "ass"

\* C7: synthesize_lines_polly attempts each line once, in input order, goes on
\* after a failure, and returns one path per line, path k for line k; what a
\* successful line leaves in its file does not depend on the other lines.
C7_EachLineOnce ==
    LET att == CallsOf({"synthesizer"})
    IN  /\ Len(att) = Len(chunk_paths)
        /\ Len(synth_ok) = Len(chunk_paths)
        /\ \A k \in 1..Len(att) : att[k].idx = k - 1 /\ att[k].ok = synth_ok[k]
        /\ \A k \in 1..Len(chunk_paths) :
              /\ chunk_paths[k] = ChunkPath(k - 1)
              /\ synth_ok[k] => \E t \in PollyTicks : files[chunk_paths[k]] = Audio(t)
        /\ pc = "synth" => Len(chunk_paths) < Len(ssml_lines)
        /\ pc \in {"mix", "timing", "emit"} => Len(chunk_paths) = Len(ssml_lines)
        /\ result.kind = "return" /\ clause_lines # <<>>
              => result.chunk_paths = [k \in 1..Len(ssml_lines) |-> ChunkPath(k - 1)]

C7_Witness ==
    /\ pc = "mix"
    /\ synth_ok = <<FALSE, TRUE>>
    /\ chunk_paths = <<ChunkPath(0), ChunkPath(1)>>
    /\ files[ChunkPath(1)] = Audio(9805)

\* the length of segment k in ticks, known to within a millisecond
SegTicks(k) == (segments[k].end - segments[k].start) * TicksPerMs

\* C8 as stated: a unit whose synthesis failed gets the clamped estimate as its
\* duration; a unit whose synthesis succeeded keeps its measured duration.
C8_FailedSynthesisIsEstimated ==
    \A k \in 1..Len(segments) :
        IF synth_ok[k]
        THEN Abs(SegTicks(k) - files[chunk_paths[k]].ticks) < TicksPerMs
        ELSE Abs(SegTicks(k) - ClampedEstimate(Len(clause_lines[k]))) < TicksPerMs

\* C8 amended: a unit whose audio file cannot be read gets the clamped
\* estimate, which lies in [0.6 s, 8.0 s] (6.0 s for 42 characters); a unit
\* whose synthesis failed and whose silence file was written gets the 0.6 s of
\* that file; a unit whose synthesis succeeded keeps its measured duration.
C8_UnreadableIsEstimated ==
    \A k \in 1..Len(segments) :
        LET f == files[chunk_paths[k]]
            n == Len(clause_lines[k])
        IN  /\ f.kind # "audio" =>
                 /\ Abs(SegTicks(k) - ClampedEstimate(n)) < TicksPerMs
                 /\ SegTicks(k) >= 600 * TicksPerMs - TicksPerMs
                 /\ SegTicks(k) <= 8000 * TicksPerMs + TicksPerMs
                 /\ n = 42 => Abs(SegTicks(k) - 6000 * TicksPerMs) < TicksPerMs
            /\ (f.kind = "audio" /\ ~synth_ok[k]) =>
                 Abs(SegTicks(k) - 600 * TicksPerMs) < TicksPerMs
            /\ synth_ok[k] =>
                 f.kind = "audio" /\ Abs(SegTicks(k) - f.ticks) < TicksPerMs

C8_Witness ==
    /\ pc = "done"
    /\ clause_lines = <<T42, T60>>
    /\ synth_ok = <<FALSE, FALSE>>
    /\ files[ChunkPath(0)] = EmptyFile
    /\ files[ChunkPath(1)] = EmptyFile
    /\ result.segments[1].end = 6000
    /\ result.segments[2].end = 14000

FsUntouched == dirs = {} /\ \A p \in Paths : files[p] = Absent

\* C9: when step 1 yields zero units, generate_subtitle_from_script returns
\* ([], [], ass_path) and has created no directory and written no file.
C9_EmptyTouchesNothing ==
    (result.kind = "return" /\ clause_lines = <<>>) =>
        /\ result = Returned(<<>>, <<>>, AssPath)
        /\ FsUntouched
        /\ segments = <<>> /\ chunk_paths = <<>>

C9_Witness ==
    /\ pc = "done"
    /\ entry = "generate_subtitle_from_script"
    /\ pre_split_lines = <<Blank, Blank>>
    /\ result = Returned(<<>>, <<>>, AssPath)

\* C10 as stated: a run that ends with the empty result has invoked no
\* external service at all.
C10_EmptyRunCallsNothing ==
    (result.kind = "return" /\ result.segments = <<>>) =>
        CallsOf({"clause_breaker", "markup_converter", "synthesizer", "concatenator"}) = <<>>

\* C10 amended: a run that ends with the empty result has invoked neither the
\* markup converter nor the synthesizer nor the concatenator; the clause
\* breaker has been invoked unless non-empty lines were pre-supplied.
C10_EmptyRunCallsNoLaterService ==
    (result.kind = "return" /\ result.segments = <<>>) =>
        /\ CallsOf({"markup_converter", "synthesizer", "concatenator"}) = <<>>
        /\ (entry = "generate_subtitle_from_script" /\ pre_split_lines # <<>>)
              => calls = <<>>
        /\ (entry = "generate_subtitle_from_script" /\ pre_split_lines = <<>>)
              => calls = <<Call("clause_breaker", -1, TRUE)>>

C10_Witness ==
    /\ pc = "done"
    /\ entry = "generate_subtitle_from_script"
    /\ script_text = <<>>
    /\ result = Returned(<<>>, <<>>, AssPath)
    /\ calls = <<Call("clause_breaker", -1, TRUE)>>

----------------------------------------------------------------------------
(* Properties of the subtitle text functions, under FnSpec *)

Range(s) == {s[k] : k \in 1..Len(s)}

\* s cut at every sep
RECURSIVE SplitOn(_, _)
SplitOn(s, sep) ==
    LET at == {k \in 1..Len(s) : s[k] = sep}
    IN  IF at = {} THEN <<s>>
        ELSE <<SubSeq(s, 1, SetMin(at) - 1)>> \o SplitOn(SubSeq(s, SetMin(at) + 1, Len(s)), sep)

Emitted == fn = "generate_ass_subtitle" /\ output # <<>>

\* the comma-separated fields of a Dialogue line; the text is the tenth
Fields(line) == SplitOn(line, ",")

Content(line) == Fields(line)[10]

\* c without its {...} tags
StripTags(c) ==
    LET opened(k) == Cardinality({j \in 1..k : c[j] = "{"})
        closed(k) == Cardinality({j \in 1..k : c[j] = "}"})
        mark == [k \in 1..Len(c) |-> IF opened(k) > closed(k - 1) THEN "DROP" ELSE c[k]]
    IN  SelectSeq(mark, LAMBDA x : x # "DROP")

\* t without its break markers
RemoveBreak(t) ==
    LET mark == [k \in 1..Len(t) |->
                    IF t[k] = "\\" \/ (k > 1 /\ t[k - 1] = "\\") THEN "DROP" ELSE t[k]]
    IN  SelectSeq(mark, LAMBDA x : x # "DROP")

CueText(line) == RemoveBreak(StripTags(Content(line)))

Sanitized == fn = "sanitize_ass_text" /\ output # <<>>

\* C11: sanitizing a sanitized text gives the same text again, for every
\* input: the empty one, the all-whitespace ones and the ones made only of
\* removed characters (whose result is the placeholder) included.
C11_SanitizeIdempotent ==
    Sanitized => sanitize_ass_text(output[1]) = output[1]

\* the filter left a space at the end, the second strip removed it, and
\* sanitizing the result again finds nothing to do
C11_Witness ==
    /\ Sanitized
    /\ input = <<"a", " ", ",">>
    /\ output[1] = <<"a">>

\* C12: the sanitizer never returns the empty string and its result has no
\* raw newline or carriage return; so no written Dialogue line has an empty
\* text.
C12_NonEmptyNoNewline ==
    /\ Sanitized =>
          /\ output[1] # <<>>
          /\ Range(output[1]) \cap {"\n", "\r"} = {}
    /\ (fn = "generate_ass_subtitle" /\ output # <<>>) =>
          \A k \in 1..Len(output[1].cues) :
              /\ Len(Fields(output[1].cues[k])) = 10
              /\ CueText(output[1].cues[k]) # <<>>

\* nothing of the input survives and the placeholder stands in for it
C12_Witness ==
    /\ Sanitized
    /\ "\n" \in Range(input)
    /\ Range(input) \cap Kept \subseteq WS
    /\ output[1] = <<NBSP>>

NonWS(s) == SelectSeq(s, LAMBDA c : c \notin WS)

\* C13: the result holds only Latin letters, digits, Hangul syllables,
\* whitespace and "?"; it has no two adjacent whitespace characters and,
\* unless it is the placeholder, no whitespace at either end; the kept
\* characters are the input's, in the input's order.
C13_SanitizedShape ==
    Sanitized =>
        LET t == output[1]
        IN  /\ Range(t) \subseteq Latin \cup Digit \cup Hangul \cup WS \cup {"?"}
            /\ Range(t) \cap {"{", "}", "\\", ","} = {}
            /\ \A k \in 1..(Len(t) - 1) : ~(t[k] \in WS /\ t[k + 1] \in WS)
            /\ t # <<NBSP>> => (t[1] \notin WS /\ t[Len(t)] \notin WS)
            /\ NonWS(t) = SelectSeq(input, LAMBDA c : c \in Kept \ WS)

\* a brace, a backslash or a comma was in the input next to kept characters
C13_Witness ==
    /\ Sanitized
    /\ Range(input) \cap {"{", "\\", ","} # {}
    /\ {"U+AC00", "?"} \subseteq Range(output[1])
    /\ Len(output[1]) = 2

Prepared == fn = "prepare_text_for_ass" /\ output # <<>>

\* the sanitizer removes every backslash, so the only one is the marker's
HasBreak(o) == "\\" \in Range(o)

BreakAt(o) == SetMin({k \in 1..Len(o) : o[k] = "\\"})

LineOne(o) == IF HasBreak(o) THEN SubSeq(o, 1, BreakAt(o) - 1) ELSE o

LineTwo(o) == IF HasBreak(o) THEN SubSeq(o, BreakAt(o) + Len(BreakMarker), Len(o)) ELSE <<>>

\* the slack the length bound is given
Slack == Len(BreakMarker)

\* C14 (as stated): no line of the result is longer than
\* max(one_line_threshold, biline_target) plus a small constant slack.
C14_LinesWithinThresholds ==
    Prepared =>
        LET lim == SetMax({input.one_line_threshold, input.biline_target}) + Slack
        IN  Len(LineOne(output[1])) <= lim /\ Len(LineTwo(output[1])) <= lim

\* C14 (amended): a single-line result is at most one_line_threshold long;
\* the first line of a word-boundary split is at most biline_target long and
\* the second line is all the rest of the text; the lines of the midpoint
\* split are the two halves of the text.
C14_LineBounds ==
    Prepared =>
        LET o   == output[1]
            t   == sanitize_ass_text(input.text)
            one == LineOne(o)
            two == LineTwo(o)
        IN  IF ~HasBreak(o)
            THEN Len(o) <= input.one_line_threshold
            ELSE \/ /\ one # <<>> /\ two # <<>>
                    /\ Len(one) <= input.biline_target
                    /\ Len(one) + 1 + Len(two) = Len(t)
                 \/ /\ Len(one) = SetMax({1, Len(t) \div 2})
                    /\ Len(one) + Len(two) = Len(t)

\* one word of 42 characters at the default thresholds: two lines of 21
C14_Witness ==
    /\ Prepared
    /\ input.text = T42
    /\ input.biline_target = BilineTarget
    /\ Len(LineOne(output[1])) = 21
    /\ Len(LineTwo(output[1])) = 21

\* C15: a text whose sanitized length is at most one_line_threshold comes
\* back as the sanitized text, one line, no break marker.
C15_ShortUnchanged ==
    (Prepared /\ Len(sanitize_ass_text(input.text)) <= input.one_line_threshold) =>
        /\ output[1] = sanitize_ass_text(input.text)
        /\ ~HasBreak(output[1])

\* the sanitized text is exactly as long as the threshold, the raw one longer
C15_Witness ==
    /\ Prepared
    /\ Len(sanitize_ass_text(input.text)) = input.one_line_threshold
    /\ Len(input.text) > input.one_line_threshold
    /\ input.one_line_threshold > 1
    /\ output[1] # input.text

FirstWordTooLong(t, target) ==
    SplitWS(t) = <<>> \/ Len(SplitWS(t)[1]) > target

AllWordsFit(t, target) == Len(Join(SplitWS(t))) <= target

\* C16: a sanitized text longer than one_line_threshold whose first word
\* alone exceeds biline_target, or whose words all fit the first line, is cut
\* at mid = max(1, len // 2): the result is text[:mid], the marker,
\* text[mid:].  Twenty characters without a space and threshold 14 are cut
\* at character 10.  The loop ends: it only moves words from the front of
\* the word list to the first line, and every call has a result.
C16_MidpointFallback ==
    Prepared =>
        LET o == output[1]
            t == sanitize_ass_text(input.text)
            h == Len(t) \div 2
            mid == IF h > 1 THEN h ELSE 1
            g == Greedy(<<>>, SplitWS(t), input.biline_target)
        IN  /\ g.left \o g.words = SplitWS(t)
            /\ ( /\ Len(t) > input.one_line_threshold
                 /\ \/ FirstWordTooLong(t, input.biline_target)
                    \/ AllWordsFit(t, input.biline_target) )
               => /\ HasBreak(o)
                  /\ BreakAt(o) = mid + 1
                  /\ LineOne(o) \o LineTwo(o) = t
            /\ (input.text = Hangul20 /\ input.one_line_threshold = OneLineThreshold)
               => /\ LineOne(o) = Rep("U+AC00", 10)
                  /\ LineTwo(o) = Rep("U+AC00", 10)

\* scenario 3 was run
C16_Witness ==
    /\ Prepared
    /\ input.text = Hangul20
    /\ input.one_line_threshold = OneLineThreshold
    /\ BreakAt(output[1]) = 11

Mapped == fn = "_pitch_to_hex" /\ output # <<>>

\* C17: >= 8 semitones gives 33CCFF, >= 6 and < 8 gives 55E0FF, >= 4 and
\* < 6 gives 77F5FF, <= -8 gives 7777FF, <= -6 and > -8 gives 8890FF, <= -4
\* and > -6 gives 99AAFF; a value strictly between -4 and +4, and a missing
\* pitch, give no colour.
C17_Bands ==
    Mapped =>
        LET o == output[1]
            has == input # NoPitch
            v == IF has THEN input[1] ELSE 0
            st(k) == k * PitchUnit
        IN  /\ (o = Hex33CCFF) <=> (has /\ v >= st(8))
            /\ (o = Hex55E0FF) <=> (has /\ v >= st(6) /\ v < st(8))
            /\ (o = Hex77F5FF) <=> (has /\ v >= st(4) /\ v < st(6))
            /\ (o = Hex7777FF) <=> (has /\ v <= st(-8))
            /\ (o = Hex8890FF) <=> (has /\ v <= st(-6) /\ v > st(-8))
            /\ (o = Hex99AAFF) <=> (has /\ v <= st(-4) /\ v > st(-6))
            /\ (o = NoColor) <=> (~has \/ (v > st(-4) /\ v < st(4)))

\* a pitch exactly on a band edge
C17_Witness ==
    /\ Mapped
    /\ input = <<-6 * PitchUnit>>
    /\ output[1] = Hex8890FF

Formatted == fn = "_fmt_time" /\ output # <<>>

TwoDigits(f, max) ==
    Len(f) = 2 /\ Range(f) \subseteq Digit /\ DigitsToInt(f) <= max

\* H:MM:SS.CC with MM and SS in 00..59 and CC in 00..99
IsHMMSSCC(o) ==
    LET f == SplitOn(o, ":")
    IN  /\ Len(f) = 3
        /\ f[1] # <<>> /\ Range(f[1]) \subseteq Digit
        /\ TwoDigits(f[2], 59)
        /\ LET g == SplitOn(f[3], ".")
           IN  Len(g) = 2 /\ TwoDigits(g[1], 59) /\ TwoDigits(g[2], 99)

ZeroTime == <<"0", ":", "0", "0", ":", "0", "0", ".", "0", "0">>

\* C19: every time is formatted as H:MM:SS.CC, minutes and seconds two
\* digits in 00..59, centiseconds two digits in 00..99; a negative time is
\* formatted as 0:00:00.00.
C19_FormatHMMSSCC ==
    Formatted =>
        /\ IsHMMSSCC(output[1])
        /\ input < 0 => output[1] = ZeroTime

----------------------------------------------------------------------------
(* Reading a written file back, and the properties of the emitter *)

ColorTagOpen == <<"{", "\\", "c", "&", "H">>

ColorTagsAt(c) == {k \in 1..Len(c) : Slice(c, k, k + Len(ColorTagOpen) - 1) = ColorTagOpen}

HasColorTag(c) == ColorTagsAt(c) # {}

\* what the colour tag carries, up to its closing "&"
ColorOf(c) ==
    LET a == SetMin(ColorTagsAt(c)) + Len(ColorTagOpen)
        b == SetMin({j \in a..Len(c) : c[j] = "&"})
    IN  Slice(c, a, b - 1)

\* the centiseconds a field H:MM:SS.CC stands for; -1 if it is not of that form
ParseTime(f) ==
    IF ~IsHMMSSCC(f) THEN -1
    ELSE LET p == SplitOn(f, ":")
             q == SplitOn(p[3], ".")
         IN  ((DigitsToInt(p[1]) * 60 + DigitsToInt(p[2])) * 60 + DigitsToInt(q[1])) * 100
                 + DigitsToInt(q[2])

\* the field gives the time ms (milliseconds) to the nearest centisecond
TimeRecovered(f, ms) == ParseTime(f) >= 0 /\ Abs(10 * ParseTime(f) - ms) <= 5

\* C18: a Dialogue line has a colour tag exactly when the colour mapper
\* gives a colour for the segment's markup, and the tag carries that colour;
\* markup with no pitch directive, or with a pitch strictly between -4 and
\* +4 semitones, gets no tag.  For markup with pitch="+9st" the extracted
\* pitch is 9.0 and the colour 33CCFF.
C18_ColorTagFollowsMapper ==
    /\ Emitted =>
          \A k \in 1..Len(input.segments) :
              LET ssml == input.segments[k].ssml
                  c    == Content(output[1].cues[k])
                  hex  == _pitch_to_hex(_extract_pitch_value(ssml))
              IN  /\ HasColorTag(c) <=> hex # NoColor
                  /\ HasColorTag(c) => ColorOf(c) = hex
                  /\ ~Contains(Lower(ssml), PitchAttr) => ~HasColorTag(c)
                  /\ ssml = MarkupSt3 => ~HasColorTag(c)
                  /\ ssml = MarkupSt9 => (HasColorTag(c) /\ ColorOf(c) = Hex33CCFF)
    /\ (fn = "_extract_pitch_value" /\ output # <<>> /\ input = MarkupSt9)
          => output[1] = <<9 * PitchUnit>>

\* a coloured line followed by a line without a colour tag
C18_Witness ==
    /\ Emitted
    /\ Len(input.segments) = 2
    /\ input.segments[1].ssml = MarkupSt9
    /\ input.segments[2].ssml = MarkupPlain
    /\ ColorOf(Content(output[1].cues[1])) = Hex33CCFF
    /\ ~HasColorTag(Content(output[1].cues[2]))

\* C20: reading the Dialogue lines of the written file back gives, for each
\* segment in order, its start and end to the centisecond and its sanitized
\* text once the anchor, the colour tag and the break marker are removed
\* (the text is compared up to whitespace, the break marker standing where
\* the whitespace between the two lines was).
C20_RoundTrip ==
    Emitted =>
        /\ Len(output[1].cues) = Len(input.segments)
        /\ \A k \in 1..Len(input.segments) :
              LET seg  == input.segments[k]
                  line == output[1].cues[k]
              IN  /\ Len(Fields(line)) = 10
                  /\ TimeRecovered(Fields(line)[2], seg.start)
                  /\ TimeRecovered(Fields(line)[3], seg.end)
                  /\ NonWS(CueText(line)) = NonWS(sanitize_ass_text(seg.text))

\* C21: with strip_trailing_punct_last set, the trailing run of ".", "!" and
\* ellipsis characters of the last segment's text is removed before the
\* sanitizer sees it, and the last cue does not end with such a character;
\* the text of every other segment, and of every segment when the flag is
\* off, goes to the sanitizer as it is (trimmed).
C21_StripOnlyLast ==
    Emitted =>
        \A k \in 1..Len(input.segments) :
            LET t == Strip(input.segments[k].text)
                r == RawText(input.segments, k, input.strip_trailing_punct_last)
                c == CueText(output[1].cues[k])
            IN  IF input.strip_trailing_punct_last /\ k = Len(input.segments)
                THEN /\ \E n \in 0..Len(t) :
                           /\ \A j \in (n + 1)..Len(t) : t[j] \in TrailingPunct
                           /\ n = 0 \/ t[n] \notin TrailingPunct
                           /\ r = Strip(SubSeq(t, 1, n))
                     /\ c[Len(c)] \notin TrailingPunct
                ELSE r = t

\* a text ending in punctuation comes first and keeps it, the same text
\* comes last and loses it
C21_Witness ==
    /\ Emitted
    /\ input.strip_trailing_punct_last
    /\ Len(input.segments) = 2
    /\ input.segments[1].text = EmitTrail
    /\ input.segments[2].text = EmitTrail
    /\ RawText(input.segments, 1, TRUE) = EmitTrail
    /\ RawText(input.segments, 2, TRUE) = <<"a", ".">>

\* the characters of a literal field of a Dialogue line
DialogueHead == <<"D", "i", "a", "l", "o", "g", "u", "e", ":", " ", "0">>

StyleName == <<"D", "e", "f", "a", "u", "l", "t">>

\* the indices of the lines of h that are the line l
LinesEqual(h, l) == {k \in 1..Len(h) : h[k] = l}

\* C22: the file written by generate_ass_subtitle is the header block once
\* (script info, exactly one style line, that of the template, the events
\* section with its format line), then exactly one Dialogue line per segment
\* in segment order, each with the ten fields Dialogue: 0, start, end,
\* Default, empty, 0, 0, 0, empty, and a text that begins with the anchor
\* tag, goes on with the colour tag if the segment has one, and ends with the
\* cue text; the file at the path is this file, whatever was there before.
C22_HeaderThenOneLinePerSegment ==
    Emitted =>
        LET f == output[1]
            segs == input.segments
            tmpl == IF input.template_name = "center"
                    THEN Registry.center ELSE Registry.educational
            h == f.header
        IN  /\ files[AssPath] = f
            /\ f.kind = "ass"
            /\ LinesEqual(h, "[Script Info]") = {1}
            /\ LinesEqual(h, "[V4+ Styles]") = {8}
            /\ {k \in 1..Len(h) : h[k] \in {Registry.educational.Style, Registry.center.Style}} = {10}
            /\ h[10] = tmpl.Style
            /\ LinesEqual(h, "[Events]") = {12}
            /\ LinesEqual(h, "Format: Layer, Start, End, Style, Name, MarginL, MarginR, MarginV, Effect, Text") = {13}
            /\ Len(f.cues) = Len(segs)
            /\ \A i \in 1..Len(segs) :
                  LET fl == Fields(f.cues[i])
                      hexcol == _pitch_to_hex(_extract_pitch_value(segs[i].ssml))
                      rest == Slice(fl[10], Len(tmpl.Pos) + 1, Len(fl[10]))
                  IN  /\ Len(fl) = 10
                      /\ fl[1] = DialogueHead
                      /\ fl[2] \in {_fmt_time(segs[i].start, b) : b \in BOOLEAN}
                      /\ fl[3] \in {_fmt_time(segs[i].end, b) : b \in BOOLEAN}
                      /\ fl[4] = StyleName
                      /\ fl[5] = <<>> /\ fl[9] = <<>>
                      /\ fl[6] = <<"0">> /\ fl[7] = <<"0">> /\ fl[8] = <<"0">>
                      /\ Slice(fl[10], 1, Len(tmpl.Pos)) = tmpl.Pos
                      /\ HasColorTag(rest) <=> hexcol # NoColor
                      /\ StripTags(rest) = StripTags(fl[10])
                      /\ IF hexcol # NoColor
                         THEN ColorTagsAt(rest) = {1}
                         ELSE rest = StripTags(rest)

\* two segments with different times written over a file of three lines or
\* over nothing
C22_Witness ==
    /\ Emitted
    /\ Len(input.segments) = 2
    /\ input.segments[1].start < input.segments[2].start
    /\ Len(output[1].header) = 14
    /\ Len(files[AssPath].cues) = 2
    /\ Fields(files[AssPath].cues[1])[2] # Fields(files[AssPath].cues[2])[2]

\* the style line and the anchor tags of the file f are those of template t
UsesTemplate(f, t) ==
    /\ f.header[10] = t.Style
    /\ \A i \in 1..Len(f.cues) : Slice(Content(f.cues[i]), 1, Len(t.Pos)) = t.Pos

\* C23: for a template name that is not in the registry the file written is
\* the file written for "educational"; for a registered name the file has
\* that template's style line and its anchor tag in every Dialogue line;
\* the registry is what the module defined, before and after every emission.
C23_UnknownTemplateIsEducational ==
    /\ SUBTITLE_TEMPLATES = Registry
    /\ Emitted =>
          IF input.template_name \in DOMAIN Registry
          THEN UsesTemplate(output[1], Registry[input.template_name])
          ELSE /\ UsesTemplate(output[1], Registry.educational)
               /\ \E half_up \in SUBSET TieTimes(input.segments) :
                     output[1] = generate_ass_subtitle(input.segments, "educational",
                                                       input.strip_trailing_punct_last,
                                                       MaxCharsPerLine, input.max_lines, half_up)

\* an emission under a name that is not registered, with a Dialogue line
C23_Witness ==
    /\ Emitted
    /\ input.template_name \notin DOMAIN Registry
    /\ Len(output[1].cues) = 2
    /\ output[1].header[10] = Registry.educational.Style
    /\ output[1].header[10] # Registry.center.Style

SplitDone == fn = "_split_to_sentences" /\ output # <<>>

RECURSIVE Concat(_)
Concat(q) == IF q = <<>> THEN <<>> ELSE Head(q) \o Concat(Tail(q))

\* C24: every unit is non-empty and trimmed; every unit but the last ends
\* with ".", "!" or "?"; no unit holds a terminal mark followed by
\* whitespace (every such place is a cut, and nothing else is); the units in
\* order hold the non-whitespace characters of the script; a non-blank
\* script without terminal mark gives the trimmed script as its one unit; an
\* empty or blank script gives no unit; the scenario script gives its two
\* sentences.
C24_SplitAfterTerminal ==
    SplitDone =>
        LET u == output[1]
            t == Strip(input)
        IN  /\ \A i \in 1..Len(u) : u[i] # <<>> /\ Strip(u[i]) = u[i]
            /\ \A i \in 1..(Len(u) - 1) : u[i][Len(u[i])] \in Terminal
            /\ \A i \in 1..Len(u) :
                  \A k \in 2..Len(u[i]) : ~(u[i][k] \in WS /\ u[i][k - 1] \in Terminal)
            /\ NonWS(Concat(u)) = NonWS(input)
            /\ Len(u) = Cardinality({k \in 2..Len(t) : t[k] \in WS /\ t[k - 1] \in Terminal})
                       + (IF t = <<>> THEN 0 ELSE 1)
            /\ (t # <<>> /\ Range(t) \cap Terminal = {}) => u = <<t>>
            /\ t = <<>> => u = <<>>
            /\ input = ScenarioOne => u = <<SubSeq(ScenarioOne, 1, 6), SubSeq(ScenarioOne, 8, 13)>>

\* the scenario script has been split in two
C24_Witness ==
    /\ SplitDone
    /\ input = ScenarioOne
    /\ Len(output[1]) = 2

\* the segments of a call whose lines leave the files sp and that runs alone
RECURSIVE AloneSegments(_, _, _, _, _)
AloneSegments(cl, ss, sp, k, clock) ==
    IF k > Len(sp) THEN <<>>
    ELSE LET dur == UnitTicks(sp[k], cl[k])
         IN  <<Segment(clock, dur, cl[k], ss[k])>>
             \o AloneSegments(cl, ss, sp, k + 1, clock + dur)

Alone(me) == AloneSegments(me.clause_lines, me.ssml_lines, me.speech, 1, 0)

\* C25: each of two concurrent calls with different subtitle paths returns
\* the segments, and leaves at its path the subtitle file, that it returns
\* and leaves when it runs alone, under every interleaving of the steps.
C25_ConcurrentRunsAsAlone ==
    \A r \in DOMAIN runs :
        runs[r].pc = "done" =>
            /\ runs[r].result.segments = Alone(runs[r])
            /\ \E half_up \in SUBSET TieTimes(Alone(runs[r])) :
                  files[runs[r].ass_path] =
                      generate_ass_subtitle(Alone(runs[r]), "educational", TRUE,
                                            MaxCharsPerLine, 2, half_up)

\* the k-th collaborator call of a run with n units, from the markup
\* converter on: the converter, the synthesis of lines 0..n-1, the concatenator
ExpectedCall(k, n) ==
    IF k = 1 THEN [svc |-> "markup_converter", idx |-> -1]
    ELSE IF k <= n + 1 THEN [svc |-> "synthesizer", idx |-> k - 2]
    ELSE [svc |-> "concatenator", idx |-> n]

\* C26: in a run with N >= 1 units the calls made so far, from the markup
\* converter on, are the first calls of: the converter once, the synthesis of
\* unit 1, ..., unit N, the concatenator once with the N paths in unit order;
\* nothing is called before them but the persona and the clause breaker; no
\* segment is timed before the concatenator was called; the subtitle file is
\* not written before all N segments are timed; a call that returns has made
\* all N + 2 calls and written the file.
C26_CallOrder ==
    LET N == Len(clause_lines)
        log == CallsOf({"markup_converter", "synthesizer", "concatenator"})
    IN  N >= 1 =>
            /\ Len(log) <= N + 2
            /\ \A k \in 1..Len(log) :
                  /\ log[k].svc = ExpectedCall(k, N).svc
                  /\ log[k].idx = ExpectedCall(k, N).idx
            /\ calls = CallsOf({"persona", "clause_breaker"}) \o log
            /\ Len(log) = N + 2 => chunk_paths = [k \in 1..N |-> ChunkPath(k - 1)]
            /\ segments # <<>> => Len(log) = N + 2
            /\ files[AssPath].kind = "ass" => Len(segments) = N
            /\ result.kind = "return" => Len(log) = N + 2 /\ files[AssPath].kind = "ass"

\* a run of two units has returned after its four calls, the second
\* synthesis having failed
C26_Witness ==
    /\ pc = "done"
    /\ result.kind = "return"
    /\ Len(clause_lines) = 2
    /\ Len(calls) >= 4
    /\ calls[Len(calls)].svc = "concatenator"
    /\ calls[Len(calls) - 1] = Call("synthesizer", 1, FALSE)
    /\ calls[Len(calls) - 2].svc = "synthesizer"
    /\ calls[Len(calls) - 3].svc = "markup_converter"
    /\ files[AssPath].kind = "ass"

\* the largest number of leading words of ws that, joined by single spaces,
\* are no longer than target
LeadingWordsThatFit(ws, target) ==
    SetMax({n \in 0..Len(ws) : Len(Join(SubSeq(ws, 1, n))) <= target})

\* C27: for a sanitized text longer than one_line_threshold of which some
\* but not all leading words fit biline_target, the first line is the longest
\* run of leading whole words that joined is no longer than biline_target,
\* the second line is all the other words in their order, both lines are
\* non-empty, and the result holds the break marker exactly once.
C27_GreedySplit ==
    Prepared =>
        LET o == output[1]
            t == sanitize_ass_text(input.text)
            ws == SplitWS(t)
            n == LeadingWordsThatFit(ws, input.biline_target)
        IN  (Len(t) > input.one_line_threshold /\ n >= 1 /\ n < Len(ws)) =>
                /\ Cardinality({k \in 1..Len(o) : o[k] = "\\"}) = 1
                /\ Slice(o, BreakAt(o), BreakAt(o) + 1) = BreakMarker
                /\ LineOne(o) = Join(SubSeq(ws, 1, n))
                /\ Len(LineOne(o)) <= input.biline_target
                /\ Len(Join(SubSeq(ws, 1, n + 1))) > input.biline_target
                /\ LineTwo(o) = Join(SubSeq(ws, n + 1, Len(ws)))
                /\ LineOne(o) # <<>> /\ LineTwo(o) # <<>>
                /\ SplitWS(LineOne(o)) \o SplitWS(LineTwo(o)) = ws

\* three words of which two fill the first line exactly
C27_Witness ==
    /\ Prepared
    /\ input.text = <<"a", " ", "a", "a", " ", "a">>
    /\ input.one_line_threshold = 3
    /\ input.biline_target = 4
    /\ output[1] = <<"a", " ", "a", "a", "\\", "N", "a">>

\* C28: the file written with strip_trailing_punct_last set is the file
\* written with it unset, for the same segments, template and line limit:
\* the sanitizer removes ".", "!" and the ellipsis wherever they stand, so a
\* text gives the same cue with and without its trailing punctuation.
C28_StripFlagUnobservable ==
    /\ Emitted =>
          \E half_up \in SUBSET TieTimes(input.segments) :
              output[1] = generate_ass_subtitle(input.segments, input.template_name,
                                                ~input.strip_trailing_punct_last,
                                                MaxCharsPerLine, input.max_lines, half_up)
    /\ Sanitized =>
          output[1] = sanitize_ass_text(Strip(StripTrailingPunct(Strip(input))))

\* the flag is set and changes the text that goes to the sanitizer
C28_Witness ==
    /\ Emitted
    /\ input.strip_trailing_punct_last
    /\ Len(input.segments) = 2
    /\ input.segments[2].text = EmitPunct
    /\ RawText(input.segments, 2, TRUE) # RawText(input.segments, 2, FALSE)
    /\ CueText(output[1].cues[2]) = <<"a", " ", "b">>

Distributed == fn = "_distribute_sentence_keywords_to_segments" /\ output # <<>>

\* c[1] copies of kw[1], then c[2] copies of kw[2], ...
RECURSIVE CopiesInOrder(_, _, _)
CopiesInOrder(kw, c, i) ==
    IF i > Len(kw) THEN <<>>
    ELSE [j \in 1..c[i] |-> kw[i]] \o CopiesInOrder(kw, c, i + 1)

\* C29: the result has n_segments entries, none when n_segments <= 0; with
\* no keyword every entry is "abstract background"; otherwise the result is
\* some copies of the first keyword, then of the second, and so on (the
\* keyword indices do not decrease), the numbers of copies of two keywords
\* differ by at most one, and every keyword has a copy when there are at
\* least as many segments as keywords.
C29_KeywordsSpreadEvenly ==
    Distributed =>
        LET kw == input.keywords
            n == input.n_segments
            o == output[1]
            m == Len(kw)
        IN  /\ Len(o) = IF n > 0 THEN n ELSE 0
            /\ (n > 0 /\ m = 0) => \A j \in 1..n : o[j] = "abstract background"
            /\ (n > 0 /\ m > 0) =>
                  \E c \in [1..m -> 0..n] :
                      /\ o = CopiesInOrder(kw, c, 1)
                      /\ \A i, j \in 1..m : c[i] - c[j] <= 1
                      /\ n >= m => \A i \in 1..m : c[i] >= 1

\* five segments for three keywords: two, two and one
C29_Witness ==
    /\ Distributed
    /\ input.keywords = <<"k1", "k2", "k1">>
    /\ input.n_segments = 5
    /\ output[1] = <<"k1", "k1", "k2", "k2", "k1">>

Deduped == fn = "dedupe_adjacent_texts" /\ output # <<>>

\* the entries of l at the indices K, in the order of l
PickAt(l, K) ==
    [j \in 1..Cardinality(K) |->
        l[CHOOSE k \in K : Cardinality({x \in K : x <= k}) = j]]

\* o is l with some entries left out
IsSubsequence(o, l) == \E K \in SUBSET (1..Len(l)) : o = PickAt(l, K)

NoEmptyEntry(o) == \A j \in 1..Len(o) : o[j] # <<>>

NoAdjacentEqual(o) == \A j \in 1..(Len(o) - 1) : o[j] # o[j + 1]

\* C30 as stated: the result holds no empty string and no two adjacent
\* equal entries, and is a subsequence of the input.
C30_NoAdjacentEqualInResult ==
    Deduped =>
        /\ NoEmptyEntry(output[1])
        /\ NoAdjacentEqual(output[1])
        /\ IsSubsequence(output[1], input)

\* C30 amended: the result holds no empty string and is a subsequence of the
\* input: exactly the non-empty entries that differ from the entry just
\* before them in the input.  An input without empty string gives a result
\* without two adjacent equal entries; two equal entries that an empty
\* string separates in the input are both kept.
C30_DropsRepeatOfPreviousInput ==
    Deduped =>
        LET l == input
            o == output[1]
            K == {k \in 1..Len(l) : l[k] # <<>> /\ (k = 1 \/ l[k - 1] # l[k])}
        IN  /\ NoEmptyEntry(o)
            /\ IsSubsequence(o, l)
            /\ o = PickAt(l, K)
            /\ NoEmptyEntry(l) => NoAdjacentEqual(o)

\* an empty string between two equal texts: both are kept
C30_Witness ==
    /\ Deduped
    /\ input = <<<<"a">>, <<>>, <<"a">>, <<"a">>>>
    /\ output[1] = <<<<"a">>, <<"a">>>>

====
